---------------------------- MODULE Spec2Model ----------------------------
(***************************************************************************)
(* perf-macos: Perf::Counter, Perf::BlockCounter and Perf::Measurement of  *)
(* perf-macos.hpp, over the kperf backend (kpc_* calls) and the steady     *)
(* clock.  One thread, one session alive at a time; a new session may be   *)
(* constructed after the previous one was destroyed.                       *)
(*                                                                         *)
(* Slots and loop indices are 0-based as in the C++ code; the arrays are   *)
(* TLA+ sequences, so slot i is element i + 1.                             *)
(***************************************************************************)
EXTENDS Integers, Sequences, FiniteSets, TLC

(***************************************************************************)
(* Bounds of the model.                                                    *)
(***************************************************************************)
\* the number of threads that construct a PerfCounter at the same time
NumThreads == 3
\* the backend reports between 0 and MaxSlots counters / configuration words
MaxSlots == 2
\* the steady clock runs from 1 to MaxClock
MaxClock == 2
\* counters are unsigned words; uint64_t arithmetic is arithmetic modulo
\* 2^64, scaled here to arithmetic modulo Modulus
Modulus == 8
\* divisors handed to averaged() and to BlockCounter are 0..MaxDivisor
MaxDivisor == 2

(***************************************************************************)
(* enum Event (x86_64)                                                     *)
(***************************************************************************)
instructions_retired == 192
l1_misses == 459
llc_misses == 16686
branch_misses_retired == 197
cycles == 60
branch_instruction_retired == 196
l2_misses == 1227
llc_references == 20270
reference_cycles == 316

Event ==
    { instructions_retired, l1_misses, llc_misses, branch_misses_retired, cycles,
      branch_instruction_retired, l2_misses, llc_references, reference_cycles }

\* default argument of Counter(std::vector<Event>) and of BlockCounter
DefaultEvents ==
    << instructions_retired, l1_misses, llc_misses, branch_misses_retired, cycles,
       branch_instruction_retired >>

\* the event lists callers hand to the constructors: a single event, two
\* events out of enum order, a repeated event, a repeated event followed by
\* another, and the six-event default
RequestLists ==
    { << cycles >>,
      << instructions_retired, cycles >>,
      << cycles, cycles >>,
      << cycles, cycles, instructions_retired >>,
      DefaultEvents }

\* the samples of n counters kpc_get_thread_counters is seen to return: the
\* slots of one sample hold different values, and the two samples differ in
\* every slot, the second being the larger in some slots and (the registers
\* having wrapped around) the smaller in others
Samples(n) ==
    { [i \in 1..n |-> (3 * i) % Modulus],
      [i \in 1..n |-> (5 * i + 1) % Modulus] }

\* what new uint64_t[n] is seen to hold before anything is written to it
Uninits(n) ==
    { [i \in 1..n |-> 0],
      [i \in 1..n |-> (Modulus - i) % Modulus] }

\* the iteration counts BlockCounter is constructed with
BlockDivisors == {0, 2}

Min(a, b) == IF a < b THEN a ELSE b


(***************************************************************************)
(* State.                                                                  *)
(***************************************************************************)
VARIABLES
    kperf,           \* static void *kperf of load_kperf: "unset", "null" or "handle"
    hw,              \* what the machine reports: counter_count, config_count
    kpc,             \* kernel side: config words written, force / counting flags
    clock,           \* last value std::chrono::steady_clock::now() returned
    alive,           \* "none", "live", "destroyed" or "terminated" (std::terminate)
    isBlock,         \* the live object is a BlockCounter
    N,               \* BlockCounter::N
    measured_events, \* Counter::measured_events
    counters_size,   \* Counter::_counters_size
    start_counters,  \* Counter::start_counters
    stop_counters,   \* Counter::stop_counters
    start_time,      \* Counter::start_time
    measurement,     \* the Measurement<uint64_t> stop() returned, if the last handler was stop()
    report,          \* the Measurement<long double> a destructor's averaged(N) returned
    calls,           \* backend and clock calls made by the last handler, in order
    diag,            \* lines the last handler wrote to std::cout as diagnostics
    outcome,         \* how the last handler ended
    started,         \* history: start() has completed on the live session
    baseSample,      \* history: sample the backend returned to the last completed start()
    baseClock,       \* history: instant the clock returned to the last completed start()
    startCaps,       \* history: captures made by the last completed start(), in order
    endSample,       \* history: sample the backend returned to the last completed stop()
    endClock,        \* history: instant the clock returned to the last completed stop()
    mapping,         \* history: the << event, slot >> pairs the loop of the last stop() went through
    restarted,       \* history: a start() has completed after a completed stop()
    restopped,       \* history: the last stop() that returned followed one with no start() between
    perf,            \* the PerfCounter object of the first version of the library, or NoPerfCounter
    divisor,         \* history: the n the last handler called averaged(n) with, or NoDivisor
    backendFailed,   \* history: a backend call of the last handler reported a failure
    steps,           \* member functions the last handler ran, in order
    printed,         \* the Measurement<long double> the last pretty_print() wrote to std::cout
    table,           \* the table the last handler of the session wrote to std::cout, or NoTable
    threads,         \* PerfCounter::load_kperf: where each calling thread is, and what it holds
    dlopens,         \* PerfCounter::load_kperf: number of dlopen calls made so far
    other,           \* a second Counter living next to the first one, or NoSession
    stopFailure      \* history: "no", or where a stop() threw and was caught: "live" session, "earlier" one

vars ==
    << kperf, hw, kpc, clock, alive, isBlock, N, measured_events, counters_size,
       start_counters, stop_counters, start_time, measurement, report, calls, diag,
       outcome, started, baseSample, baseClock, startCaps, endSample, endClock,
       mapping, restarted, restopped, divisor, backendFailed, steps, printed, table, threads,
       dlopens, other, perf, stopFailure >>

sessionVars ==
    << isBlock, N, measured_events, counters_size, start_counters, stop_counters,
       start_time >>

historyVars ==
    << started, baseSample, baseClock, startCaps, endSample, endClock, mapping, restarted,
       restopped >>

\* what the single-session handlers never touch
auxVars == << threads, dlopens, other, perf >>

NoDivisor == 0 - 1

NoSession == [alive |-> FALSE]

NoPerfCounter == [alive |-> "none"]

NoMeasurement == [kind |-> "none"]

NoTable == [kind |-> "none"]

Ok(op) == [op |-> op, kind |-> "ok", what |-> ""]
Returned(op) == [op |-> op, kind |-> "measurement", what |-> ""]
Threw(op, what) == [op |-> op, kind |-> "error", what |-> what]
Terminated(op, what) == [op |-> op, kind |-> "terminate", what |-> what]

(***************************************************************************)
(* Perf::Measurement                                                       *)
(***************************************************************************)
RECURSIVE GCD(_, _)
GCD(a, b) == IF b = 0 THEN a ELSE GCD(b, a % b)

\* static_cast<R>(x / n): the division done on the integers, before the cast
QuotientOfIntegers(x, n) ==
    IF n = 0
    THEN [cls |-> "inf", num |-> 1, den |-> 0]
    ELSE [cls |-> "finite", num |-> x \div n, den |-> 1]

\* static_cast<R>(x) / static_cast<R>(n) in long double: the quotient as a
\* fraction in lowest terms; x / 0 is +inf for x > 0 and NaN for x = 0, no
\* exception is raised
Quotient(x, n) ==
    IF n = 0
    THEN IF x = 0 THEN [cls |-> "nan", num |-> 0, den |-> 0]
                  ELSE [cls |-> "inf", num |-> 1, den |-> 0]
    ELSE [cls |-> "finite", num |-> x \div GCD(x, n), den |-> n \div GCD(x, n)]

\* a lookup that has no name for a code it does not know
human_readable_nameOrEmpty(event) ==
    CASE event = instructions_retired -> "Instructions"
      [] event = l1_misses -> "L1 misses"
      [] event = llc_misses -> "LLC misses"
      [] event = branch_misses_retired -> "Branch misses"
      [] event = cycles -> "Cycles"
      [] event = branch_instruction_retired -> "Branches"
      [] event = l2_misses -> "L2 misses"
      [] event = llc_references -> "LLC misses"
      [] event = reference_cycles -> "Reference cycles"
      [] OTHER -> ""

\* Measurement::human_readable_name(event): the switch and its default
human_readable_name(event) ==
    CASE event = instructions_retired -> "Instructions"
      [] event = l1_misses -> "L1 misses"
      [] event = llc_misses -> "LLC misses"
      [] event = branch_misses_retired -> "Branch misses"
      [] event = cycles -> "Cycles"
      [] event = branch_instruction_retired -> "Branches"
      [] event = l2_misses -> "L2 misses"
      [] event = llc_references -> "LLC misses"
      [] event = reference_cycles -> "Reference cycles"
      [] OTHER -> "Unimplemented"

\* std::to_string of a uint64_t: its decimal digits
to_string_integer(v) == [fmt |-> "integer", value |-> v]

\* std::to_string of a long double ("%Lf"): six digits after the point, the
\* value rounded to the nearest millionth; q is the value as a fraction
to_string_long_double(q) ==
    CASE q.cls = "finite" ->
             [fmt |-> "fixed", millionths |-> (2 * q.num * 1000000 + q.den) \div (2 * q.den)]
      [] q.cls = "inf" -> [fmt |-> "inf"]
      [] OTHER -> [fmt |-> "nan"]

\* an integer held in a long double
AsLongDouble(t) == [cls |-> "finite", num |-> t, den |-> 1]

\* the orders in which a range-for may go through an unordered_map with the
\* keys S: the standard leaves the order open
IterationOrders(S) ==
    {o \in [1..Cardinality(S) -> S] : \A e \in S : \E i \in 1..Cardinality(S) : o[i] = e}

\* a pretty_print() whose second loop goes through the map backwards
pretty_printRowReversed(m, D, it) ==
    [kind |-> "table",
     columns |-> it,
     header |-> << "Elapsed [ns]" >> \o [i \in 1..Len(it) |-> human_readable_name(it[i])],
     row |-> << to_string_long_double(IF D = "uint64_t" THEN AsLongDouble(m.time_delta_ns)
                                                        ELSE m.time_delta_ns) >>
             \o [i \in 1..Len(it) |->
                     IF D = "uint64_t" THEN to_string_integer(m.data[it[Len(it) + 1 - i]])
                                       ELSE to_string_long_double(m.data[it[Len(it) + 1 - i]])]]

\* Measurement<D>::pretty_print(): the header and the row written to
\* std::cout, the two loops going through data in the order it; columns is
\* it, kept next to the text
pretty_print(m, D, it) ==
    [kind |-> "table",
     columns |-> it,
     header |-> << "Elapsed [ns]" >> \o [i \in 1..Len(it) |-> human_readable_name(it[i])],
     row |-> << to_string_long_double(IF D = "uint64_t" THEN AsLongDouble(m.time_delta_ns)
                                                        ELSE m.time_delta_ns) >>
             \o [i \in 1..Len(it) |->
                     IF D = "uint64_t" THEN to_string_integer(m.data[it[i]])
                                       ELSE to_string_long_double(m.data[it[i]])]]

\* the tables pretty_print() may write for a Measurement<D>
Tables(m, D) == {pretty_print(m, D, it) : it \in IterationOrders(DOMAIN m.data)}

\* an averaged() that leaves the values as they are
averagedByOne(m, n) ==
    [kind |-> "measurement",
     data |-> [e \in DOMAIN m.data |-> Quotient(m.data[e], 1)],
     time_delta_ns |-> Quotient(m.time_delta_ns, 1)]

\* Measurement::averaged(N)
averaged(m, n) ==
    [kind |-> "measurement",
     data |-> [e \in DOMAIN m.data |-> Quotient(m.data[e], n)],
     time_delta_ns |-> Quotient(m.time_delta_ns, n)]

(***************************************************************************)
(* Perf::Counter                                                           *)
(***************************************************************************)
INTEL_CONF_CTR_USER_MODE == 65536

\* a configuration word that is the event code as it is
ConfigWordRaw(e) == e

\* a configuration word with the OS-mode flag 0x20000 next to the user-mode flag
ConfigWordBothModes(e) == (e % 65536) + INTEL_CONF_CTR_USER_MODE + 2 * INTEL_CONF_CTR_USER_MODE

\* (0xFFFF & measured_events[i]) | INTEL_CONF_CTR_USER_MODE
ConfigWord(e) == (e % 65536) + INTEL_CONF_CTR_USER_MODE

MoreRegistersMsg ==
    "[Perf::Counter] More configurable perf registers are available than were selected"

\* the for loop of configure_counters from index i on: configs is the array
\* (uninitialised words as the stack left them), out the lines printed
RECURSIVE ConfigLoop(_, _, _, _, _)
ConfigLoop(i, configs_cnt, evs, configs, out) ==
    IF i < configs_cnt
    THEN IF i >= Len(evs)
         THEN [configs |-> configs, diag |-> Append(out, MoreRegistersMsg)]
         ELSE ConfigLoop(i + 1, configs_cnt, evs,
                         [configs EXCEPT ![i + 1] = ConfigWord(evs[i + 1])], out)
    ELSE [configs |-> configs, diag |-> out]

\* a difference that stops at zero instead of wrapping around
DeltaSaturating(stopv, startv) == IF stopv >= startv THEN stopv - startv ELSE 0

\* stop_counters[i] - start_counters[i] on uint64_t
Delta(stopv, startv) == (stopv - startv + Modulus) % Modulus

\* an emplace into a map that takes one entry and no more
EmplaceIntoEmpty(map, key, value) == IF DOMAIN map = {} THEN key :> value ELSE map

\* std::unordered_map::emplace: an existing key keeps its value
Emplace(map, key, value) == IF key \in DOMAIN map THEN map ELSE map @@ (key :> value)

\* a loop that stops one slot early
StopBoundExclusive(size, evs) == Min(size, Len(evs)) - 1

\* a loop that reports nothing when more events are requested than there
\* are slots
StopBoundAllOrNothing(size, evs) == IF Len(evs) > size THEN 0 ELSE Len(evs)

\* std::min(_counters_size, measured_events.size())
StopBound(size, evs) == Min(size, Len(evs))

\* a loop that leaves out the events whose counter did not move
RECURSIVE StopLoopSkippingIdle(_, _, _, _, _, _)
StopLoopSkippingIdle(i, bound, evs, startc, stopc, acc) ==
    IF i < bound
    THEN StopLoopSkippingIdle(i + 1, bound, evs, startc, stopc,
             IF stopc[i + 1] = startc[i + 1]
             THEN acc
             ELSE [counter_values |->
                       Emplace(acc.counter_values, evs[i + 1],
                               Delta(stopc[i + 1], startc[i + 1])),
                   pairs |-> Append(acc.pairs, << evs[i + 1], i >>)])
    ELSE acc

\* the for loop of stop() from index i on: acc.counter_values is the map
\* built so far, acc.pairs the << measured_events[i], i >> pairs the loop has
\* gone through
RECURSIVE StopLoop(_, _, _, _, _, _)
StopLoop(i, bound, evs, startc, stopc, acc) ==
    IF i < bound
    THEN StopLoop(i + 1, bound, evs, startc, stopc,
                  [counter_values |->
                       Emplace(acc.counter_values, evs[i + 1],
                               Delta(stopc[i + 1], startc[i + 1])),
                   pairs |-> Append(acc.pairs, << evs[i + 1], i >>)])
    ELSE acc

\* a Measurement whose elapsed time is taken the wrong way round
MakeMeasurementBackwards(counter_values, end_time, begin_time) ==
    [kind |-> "measurement", data |-> counter_values,
     time_delta_ns |-> begin_time - end_time]

\* Measurement(counter_values, (end_time - start_time).count())
MakeMeasurement(counter_values, end_time, begin_time) ==
    [kind |-> "measurement", data |-> counter_values,
     time_delta_ns |-> end_time - begin_time]

\* words an uninitialised element of uint64_t configs[configs_cnt] may hold
UninitConfigs(n) ==
    { [i \in 1..n |-> 0], [i \in 1..n |-> INTEL_CONF_CTR_USER_MODE - 1] }

\* which backend call of start() fails, if any
StartFailures ==
    {"none", "kpc_set_config", "kpc_force_all_ctrs_set", "kpc_set_counting",
     "kpc_set_thread_counting", "kpc_get_thread_counters"}

\* a configure_counters() that does nothing when counting is enabled already
configure_countersWhenIdle(evs, k, garbage, fail) ==
    LET loop == ConfigLoop(0, hw.config_count, evs, garbage, << >>)
    IN  IF k.counting /\ k.thread_counting
        THEN [kpc |-> k, calls |-> << >>, diag |-> << >>, what |-> ""]
        ELSE [kpc |-> [config |-> loop.configs, forced |-> TRUE, counting |-> TRUE,
                       thread_counting |-> TRUE],
              calls |-> << "kpc_get_config_count", "kpc_set_config",
                           "kpc_force_all_ctrs_set", "kpc_set_counting",
                           "kpc_set_thread_counting" >>,
              diag |-> loop.diag, what |-> ""]

\* configure_counters(): k is the kernel state before, garbage the
\* uninitialised configs array, fail the backend call that fails
configure_counters(evs, k, garbage, fail) ==
    LET loop == ConfigLoop(0, hw.config_count, evs, garbage, << >>)
        c1 == << "kpc_get_config_count", "kpc_set_config" >>
        c2 == Append(c1, "kpc_force_all_ctrs_set")
        c3 == Append(c2, "kpc_set_counting")
        c4 == Append(c3, "kpc_set_thread_counting")
        k1 == [k EXCEPT !.config = loop.configs]
        k2 == [k1 EXCEPT !.forced = TRUE]
        k3 == [k2 EXCEPT !.counting = TRUE]
        k4 == [k3 EXCEPT !.thread_counting = TRUE]
    IN  CASE fail = "kpc_set_config" ->
               [kpc |-> k, calls |-> c1, diag |-> loop.diag,
                what |-> "Could not configure counters"]
          [] fail = "kpc_force_all_ctrs_set" ->
               [kpc |-> k1, calls |-> c2, diag |-> loop.diag,
                what |-> "Could not force ctrs"]
          [] fail = "kpc_set_counting" ->
               [kpc |-> k2, calls |-> c3, diag |-> loop.diag,
                what |-> "Failed to enable counting"]
          [] fail = "kpc_set_thread_counting" ->
               [kpc |-> k3, calls |-> c4, diag |-> loop.diag,
                what |-> "Failed to enable counting"]
          [] OTHER ->
               [kpc |-> k4, calls |-> c4, diag |-> loop.diag, what |-> ""]

\* a read_counters() that does not look at what the backend call returned
read_countersUnchecked(counters, sample, fails) ==
    [counters |-> IF fails THEN counters ELSE sample, what |-> ""]

\* read_counters(counters): the array after the call and what was thrown
read_counters(counters, sample, fails) ==
    IF fails
    THEN [counters |-> counters, what |-> "Failed to read current kpc config"]
    ELSE [counters |-> sample, what |-> ""]

\* the captures of a start() that reads the counters before the clock
StartCapturesReadFirst(startc, now, sample, readFails) ==
    LET rd == read_counters(startc, sample, readFails)
    IN  [start_time |-> now, start_counters |-> rd.counters, what |-> rd.what,
         calls |-> << "kpc_get_thread_counters", "steady_clock::now" >>]

\* the captures of a start() that leaves the baseline it finds in place
StartCapturesKeepingBaseline(startc, now, sample, readFails) ==
    LET rd == read_counters(startc, sample, readFails)
    IN  [start_time |-> now, start_counters |-> startc, what |-> rd.what,
         calls |-> << "steady_clock::now", "kpc_get_thread_counters" >>]

\* the two captures of start(), after configure_counters():
\*   start_time = steady_clock::now(); read_counters(start_counters);
StartCaptures(startc, now, sample, readFails) ==
    LET rd == read_counters(startc, sample, readFails)
    IN  [start_time |-> now, start_counters |-> rd.counters, what |-> rd.what,
         calls |-> << "steady_clock::now", "kpc_get_thread_counters" >>]

\* start(): in is [fail, garbage, now, sample]
start(evs, startc, begin_time, k, clk, in) ==
    LET cfg == configure_counters(evs, k, in.garbage, in.fail)
        cap == StartCaptures(startc, in.now, in.sample,
                             in.fail = "kpc_get_thread_counters")
    IN  IF cfg.what # ""
        THEN [kpc |-> cfg.kpc, clock |-> clk, start_time |-> begin_time,
              start_counters |-> startc, calls |-> cfg.calls, caps |-> << >>,
              diag |-> cfg.diag, what |-> cfg.what]
        ELSE [kpc |-> cfg.kpc, clock |-> in.now, start_time |-> cap.start_time,
              start_counters |-> cap.start_counters, calls |-> cfg.calls \o cap.calls,
              caps |-> cap.calls, diag |-> cfg.diag, what |-> cap.what]

\* the captures of a stop() that reads the clock before the counters
StopCapturesClockFirst(stopc, now, sample, readFails) ==
    LET rd == read_counters(stopc, sample, readFails)
    IN  IF rd.what # ""
        THEN [stop_counters |-> rd.counters, what |-> rd.what, took_time |-> TRUE,
              calls |-> << "steady_clock::now", "kpc_get_thread_counters" >>]
        ELSE [stop_counters |-> rd.counters, what |-> "", took_time |-> TRUE,
              calls |-> << "steady_clock::now", "kpc_get_thread_counters" >>]

\* the two captures of stop():
\*   read_counters(stop_counters); end_time = steady_clock::now();
StopCaptures(stopc, now, sample, readFails) ==
    LET rd == read_counters(stopc, sample, readFails)
    IN  IF rd.what # ""
        THEN [stop_counters |-> rd.counters, what |-> rd.what, took_time |-> FALSE,
              calls |-> << "kpc_get_thread_counters" >>]
        ELSE [stop_counters |-> rd.counters, what |-> "", took_time |-> TRUE,
              calls |-> << "kpc_get_thread_counters", "steady_clock::now" >>]

\* stop(): in is [now, sample, readFails]
stop(evs, size, startc, stopc, begin_time, clk, in) ==
    LET cap == StopCaptures(stopc, in.now, in.sample, in.readFails)
        loop == StopLoop(0, StopBound(size, evs), evs, startc, cap.stop_counters,
                         [counter_values |-> << >>, pairs |-> << >>])
    IN  IF cap.what # ""
        THEN [stop_counters |-> cap.stop_counters, clock |-> clk, calls |-> cap.calls,
              what |-> cap.what, measurement |-> NoMeasurement, pairs |-> << >>]
        ELSE [stop_counters |-> cap.stop_counters, clock |-> in.now, calls |-> cap.calls,
              what |-> "", pairs |-> loop.pairs,
              measurement |-> MakeMeasurement(loop.counter_values, in.now, begin_time)]

\* a teardown that makes its backend call a second time
teardown_countersTwice(k, fails) ==
    IF fails
    THEN [kpc |-> k, calls |-> << "kpc_force_all_ctrs_set" >>,
          what |-> "Could not unforce counters"]
    ELSE [kpc |-> [k EXCEPT !.forced = FALSE],
          calls |-> << "kpc_force_all_ctrs_set", "kpc_force_all_ctrs_set" >>,
          what |-> ""]

\* teardown_counters(): kpc_force_all_ctrs_set(0)
teardown_counters(k, fails) ==
    IF fails
    THEN [kpc |-> k, calls |-> << "kpc_force_all_ctrs_set" >>,
          what |-> "Could not unforce counters"]
    ELSE [kpc |-> [k EXCEPT !.forced = FALSE], calls |-> << "kpc_force_all_ctrs_set" >>,
          what |-> ""]

\* the fields of an object that does not exist
BlankSession ==
    /\ isBlock' = FALSE
    /\ N' = 0
    /\ measured_events' = << >>
    /\ counters_size' = 0
    /\ start_counters' = << >>
    /\ stop_counters' = << >>
    /\ start_time' = 0

\* the history of a session on which nothing was called yet
BlankHistory ==
    /\ started' = FALSE
    /\ baseSample' = << >>
    /\ baseClock' = 0
    /\ startCaps' = << >>
    /\ endSample' = << >>
    /\ endClock' = 0
    /\ mapping' = << >>
    /\ restarted' = FALSE
    /\ restopped' = FALSE

(***************************************************************************)
(* Initial state: no session, the library not loaded, the machine's counts *)
(* as the backend will report them.                                        *)
(***************************************************************************)
Init ==
    /\ kperf = "unset"
    /\ hw \in [counter_count : 0..MaxSlots, config_count : 0..MaxSlots]
    /\ kpc = [config |-> [i \in 1..hw.config_count |-> 0], forced |-> FALSE,
              counting |-> FALSE, thread_counting |-> FALSE]
    /\ clock = 1
    /\ alive = "none"
    /\ isBlock = FALSE
    /\ N = 0
    /\ measured_events = << >>
    /\ counters_size = 0
    /\ start_counters = << >>
    /\ stop_counters = << >>
    /\ start_time = 0
    /\ measurement = NoMeasurement
    /\ report = NoMeasurement
    /\ calls = << >>
    /\ diag = << >>
    /\ outcome = Ok("init")
    /\ started = FALSE
    /\ baseSample = << >>
    /\ baseClock = 0
    /\ startCaps = << >>
    /\ endSample = << >>
    /\ endClock = 0
    /\ mapping = << >>
    /\ restarted = FALSE
    /\ restopped = FALSE
    /\ divisor = NoDivisor
    /\ backendFailed = FALSE
    /\ steps = << >>
    /\ printed = NoMeasurement
    /\ table = NoTable
    /\ threads = << >>
    /\ dlopens = 0
    /\ other = NoSession
    /\ perf = NoPerfCounter
    /\ stopFailure = "no"

\* The callers in this repository catch nothing: an exception that leaves a
\* handler propagates out of main() and the process ends there, so a handler
\* is called only while no exception is propagating.
NotThrowing == outcome.kind # "error"

\* no object exists, none yet or the last one was destroyed: one can be
\* constructed
CanConstruct == alive \in {"none", "destroyed"} /\ NotThrowing

\* a Counter exists: start() and stop() can be called on it, and it can be
\* destroyed
CounterLive == alive = "live" /\ NotThrowing /\ ~isBlock

\* a BlockCounter exists.  A BlockCounter is a scope guard: between its
\* construction and the end of its scope nothing is called on it.
BlockCounterLive == alive = "live" /\ NotThrowing /\ isBlock

\* a load_kperf() that checks neither the handle nor the symbols
load_kperfUnchecked(handle, dl) ==
    LET opened == IF handle = "unset"
                  THEN IF dl = "dlopen_fails" THEN "null" ELSE "handle"
                  ELSE handle
    IN  [kperf |-> opened,
         calls |-> IF handle = "unset" THEN << "dlopen", "dlsym" >> ELSE << "dlsym" >>,
         what |-> ""]

\* a load_kperf() that opens the library at every call
load_kperfReopening(handle, dl) ==
    LET opened == IF dl = "dlopen_fails" THEN "null" ELSE "handle"
    IN  IF opened = "null"
        THEN [kperf |-> opened, calls |-> << "dlopen" >>, what |-> "Unable to load kperf"]
        ELSE IF dl = "symbol_missing"
        THEN [kperf |-> opened, calls |-> << "dlopen", "dlsym" >>,
              what |-> "kperf missing symbol"]
        ELSE [kperf |-> opened, calls |-> << "dlopen", "dlsym" >>, what |-> ""]

\* load_kperf(): the static handle after the call, the calls made and what
\* was thrown; dl is what the dynamic loader does
load_kperf(handle, dl) ==
    LET opened == IF handle = "unset"
                  THEN IF dl = "dlopen_fails" THEN "null" ELSE "handle"
                  ELSE handle
        c0 == IF handle = "unset" THEN << "dlopen" >> ELSE << >>
    IN  IF opened = "null"
        THEN [kperf |-> opened, calls |-> c0, what |-> "Unable to load kperf"]
        ELSE IF dl = "symbol_missing"
        THEN [kperf |-> opened, calls |-> Append(c0, "dlsym"),
              what |-> "kperf missing symbol"]
        ELSE [kperf |-> opened, calls |-> Append(c0, "dlsym"), what |-> ""]

\* the instants steady_clock::now() may return next: the clock is monotonic
\* and does not always advance between two calls
Instants == {t \in {clock, clock + 1} : t <= MaxClock}

\* an input the handler does not get to use
Unused(S) == CHOOSE x \in S : TRUE

\* the inputs of a start() on a list of evs events: the backend call that
\* fails, the uninitialised configs array (it shows only where the loop
\* leaves words unwritten), the instant the clock returns and the sample the
\* backend returns (both unused when an earlier call fails)
StartInputs(evs) ==
    LET garbages == IF hw.config_count > Len(evs)
                    THEN UninitConfigs(hw.config_count)
                    ELSE {Unused(UninitConfigs(hw.config_count))}
    IN  [fail : {"none"}, garbage : garbages, now : Instants,
         sample : Samples(hw.counter_count)]
        \cup
        [fail : {"kpc_get_thread_counters"}, garbage : garbages, now : Instants,
         sample : {Unused(Samples(hw.counter_count))}]
        \cup
        [fail : StartFailures \ {"none", "kpc_get_thread_counters"}, garbage : garbages,
         now : {clock}, sample : {Unused(Samples(hw.counter_count))}]

\* the inputs of a stop(): whether the backend read fails, and if not the
\* sample it returns and the instant the clock returns
StopInputs ==
    [readFails : {FALSE}, now : Instants, sample : Samples(hw.counter_count)]
    \cup
    [readFails : {TRUE}, now : {clock}, sample : {Unused(Samples(hw.counter_count))}]

\* the inputs of BlockCounter(N, evs): what the dynamic loader does, the
\* inputs of the start() it ends with (unused when loading fails), and
\* whether the backend call of teardown_counters() fails (unused unless
\* start() throws)
BlockInputs(evs) ==
    [dl : {"ok"}, in : {i \in StartInputs(evs) : i.fail = "none"}, tdFails : {FALSE}]
    \cup
    [dl : {"ok"}, in : {i \in StartInputs(evs) : i.fail # "none"}, tdFails : BOOLEAN]
    \cup
    [dl : {"dlopen_fails", "symbol_missing"}, in : {Unused(StartInputs(evs))},
     tdFails : {FALSE}]

\* the inputs of ~BlockCounter(): those of its stop(), and whether the
\* backend call of teardown_counters() fails (unused when stop() throws)
BlockExitInputs ==
    [in : {i \in StopInputs : ~i.readFails}, tdFails : BOOLEAN]
    \cup
    [in : {i \in StopInputs : i.readFails}, tdFails : {FALSE}]

(***************************************************************************)
(* Counter::Counter(measured_events)                                       *)
(***************************************************************************)
ConstructCounter(evs, dl) ==
    /\ CanConstruct
    /\ LET ld == load_kperf(kperf, dl)
       IN  /\ kperf' = ld.kperf
           /\ measurement' = NoMeasurement
           /\ report' = NoMeasurement
           /\ diag' = << >>
           /\ divisor' = NoDivisor
           /\ backendFailed' = (ld.what # "")
           /\ steps' = << "Counter" >>
           /\ printed' = NoMeasurement
           /\ table' = NoTable
           /\ stopFailure' = IF stopFailure = "no" THEN "no" ELSE "earlier"
           /\ BlankHistory
           /\ UNCHANGED << hw, kpc, clock >>
           /\ UNCHANGED auxVars
           /\ IF ld.what # ""
              THEN /\ alive' = "none"
                   /\ BlankSession
                   /\ calls' = ld.calls
                   /\ outcome' = Threw("Counter", ld.what)
              ELSE /\ alive' = "live"
                   /\ isBlock' = FALSE
                   /\ N' = 0
                   /\ measured_events' = evs
                   /\ counters_size' = hw.counter_count
                   /\ start_counters' \in Uninits(hw.counter_count)
                   /\ stop_counters' \in Uninits(hw.counter_count)
                   /\ start_time' = 0
                   /\ calls' = Append(ld.calls, "kpc_get_counter_count")
                   /\ outcome' = Ok("Counter")

(***************************************************************************)
(* Counter::start()                                                        *)
(***************************************************************************)
Start(in) ==
    /\ CounterLive
    /\ \E r \in {start(measured_events, start_counters, start_time, kpc, clock, in)} :
           /\ kpc' = r.kpc
           /\ clock' = r.clock
           /\ start_time' = r.start_time
           /\ start_counters' = r.start_counters
           /\ calls' = r.calls
           /\ diag' = r.diag
           /\ IF r.what = ""
              THEN /\ outcome' = Ok("start")
                   /\ started' = TRUE
                   /\ baseSample' = in.sample
                   /\ baseClock' = in.now
                   /\ startCaps' = r.caps
                   /\ restarted' = (restarted \/ endClock # 0)
                   /\ restopped' = FALSE
              ELSE /\ outcome' = Threw("start", r.what)
                   /\ UNCHANGED << started, baseSample, baseClock, startCaps, restarted,
                                   restopped >>
    /\ measurement' = NoMeasurement
    /\ divisor' = NoDivisor
    /\ backendFailed' = (in.fail # "none")
    /\ steps' = << "start" >>
    /\ table' = NoTable
    /\ UNCHANGED stopFailure
    /\ UNCHANGED << kperf, hw, alive, isBlock, N, measured_events, counters_size,
                    stop_counters, report, printed, endSample, endClock, mapping >>
    /\ UNCHANGED auxVars

\* a stop() that makes the sample it read the baseline of the next one
StopRebasing(in) ==
    /\ CounterLive
    /\ \E r \in {stop(measured_events, counters_size, start_counters, stop_counters,
                      start_time, clock, in)} :
           /\ stop_counters' = r.stop_counters
           /\ start_counters' = r.stop_counters
           /\ clock' = r.clock
           /\ calls' = r.calls
           /\ diag' = << >>
           /\ measurement' = r.measurement
           /\ IF r.what = ""
              THEN /\ outcome' = Returned("stop")
                   /\ endSample' = in.sample
                   /\ endClock' = in.now
                   /\ mapping' = r.pairs
                   /\ restopped' = (measurement.kind = "measurement")
              ELSE /\ outcome' = Threw("stop", r.what)
                   /\ UNCHANGED << endSample, endClock, mapping, restopped >>
    /\ divisor' = NoDivisor
    /\ backendFailed' = in.readFails
    /\ steps' = << "stop" >>
    /\ table' = NoTable
    /\ UNCHANGED auxVars
    /\ UNCHANGED stopFailure
    /\ UNCHANGED << kperf, hw, kpc, alive, report, printed, isBlock, N, measured_events,
                    counters_size, start_time, started, baseSample,
                    baseClock, startCaps, restarted >>

(***************************************************************************)
(* Counter::stop()                                                         *)
(***************************************************************************)
Stop(in) ==
    /\ CounterLive
    /\ \E r \in {stop(measured_events, counters_size, start_counters, stop_counters,
                      start_time, clock, in)} :
           /\ stop_counters' = r.stop_counters
           /\ clock' = r.clock
           /\ calls' = r.calls
           /\ diag' = << >>
           /\ measurement' = r.measurement
           /\ IF r.what = ""
              THEN /\ outcome' = Returned("stop")
                   /\ endSample' = in.sample
                   /\ endClock' = in.now
                   /\ mapping' = r.pairs
                   /\ restopped' = (measurement.kind = "measurement")
              ELSE /\ outcome' = Threw("stop", r.what)
                   /\ UNCHANGED << endSample, endClock, mapping, restopped >>
    /\ divisor' = NoDivisor
    /\ backendFailed' = in.readFails
    /\ steps' = << "stop" >>
    /\ table' = NoTable
    /\ UNCHANGED auxVars
    /\ UNCHANGED stopFailure
    /\ UNCHANGED << kperf, hw, kpc, alive, report, printed, isBlock, N, measured_events,
                    counters_size, start_counters, start_time, started, baseSample,
                    baseClock, startCaps, restarted >>

(***************************************************************************)
(* BlockCounter::BlockCounter(N, measured_events): Counter(measured_events) *)
(* and then start().  When start() throws, the Counter base is destroyed    *)
(* while the exception unwinds; a second exception thrown by                *)
(* teardown_counters() in ~Counter then ends the process (std::terminate).  *)
(***************************************************************************)
ConstructBlockCounter(n, evs, dl, in, tdFails) ==
    /\ CanConstruct
    /\ \E ld \in {load_kperf(kperf, dl)},
          r \in {start(evs, Unused(Uninits(hw.counter_count)), 0, kpc, clock, in)} :
       LET td == teardown_counters(r.kpc, tdFails)
       IN  /\ kperf' = ld.kperf
           /\ measurement' = NoMeasurement
           /\ report' = NoMeasurement
           /\ divisor' = NoDivisor
           /\ backendFailed' = (ld.what # "" \/ r.what # "")
           /\ endSample' = << >>
           /\ endClock' = 0
           /\ mapping' = << >>
           /\ restarted' = FALSE
           /\ restopped' = FALSE
           /\ printed' = NoMeasurement
           /\ table' = NoTable
           /\ stopFailure' = IF stopFailure = "no" THEN "no" ELSE "earlier"
           /\ UNCHANGED hw
           /\ UNCHANGED auxVars
           /\ IF ld.what # ""
              THEN /\ alive' = "none"
                   /\ steps' = << "Counter" >>
                   /\ BlankSession
                   /\ calls' = ld.calls
                   /\ diag' = << >>
                   /\ outcome' = Threw("BlockCounter", ld.what)
                   /\ started' = FALSE
                   /\ baseSample' = << >>
                   /\ baseClock' = 0
                   /\ startCaps' = << >>
                   /\ UNCHANGED << kpc, clock >>
              ELSE IF r.what # ""
              THEN /\ alive' = IF td.what # "" THEN "terminated" ELSE "none"
                   /\ steps' = << "Counter", "start", "~Counter" >>
                   /\ BlankSession
                   /\ kpc' = td.kpc
                   /\ clock' = r.clock
                   /\ calls' = Append(ld.calls, "kpc_get_counter_count") \o r.calls \o td.calls
                   /\ diag' = r.diag
                   /\ outcome' = IF td.what # "" THEN Terminated("BlockCounter", td.what)
                                                ELSE Threw("BlockCounter", r.what)
                   /\ started' = FALSE
                   /\ baseSample' = << >>
                   /\ baseClock' = 0
                   /\ startCaps' = << >>
              ELSE /\ alive' = "live"
                   /\ steps' = << "Counter", "start" >>
                   /\ isBlock' = TRUE
                   /\ N' = n
                   /\ measured_events' = evs
                   /\ counters_size' = hw.counter_count
                   /\ start_counters' = r.start_counters
                   /\ stop_counters' \in Uninits(hw.counter_count)
                   /\ start_time' = r.start_time
                   /\ kpc' = r.kpc
                   /\ clock' = r.clock
                   /\ calls' = Append(ld.calls, "kpc_get_counter_count") \o r.calls
                   /\ diag' = r.diag
                   /\ outcome' = Ok("BlockCounter")
                   /\ started' = TRUE
                   /\ baseSample' = in.sample
                   /\ baseClock' = in.now
                   /\ startCaps' = r.caps

(***************************************************************************)
(* Counter::~Counter(): teardown_counters() and the release of the arrays.  *)
(* The destructor is noexcept, so an exception leaving teardown_counters()  *)
(* ends the process.                                                        *)
(***************************************************************************)
DestroyCounter(tdFails) ==
    /\ CounterLive
    /\ LET td == teardown_counters(kpc, tdFails)
       IN  /\ kpc' = td.kpc
           /\ calls' = td.calls
           /\ alive' = IF td.what # "" THEN "terminated" ELSE "destroyed"
           /\ outcome' = IF td.what # "" THEN Terminated("~Counter", td.what)
                                        ELSE Ok("~Counter")
    /\ diag' = << >>
    /\ measurement' = NoMeasurement
    /\ divisor' = NoDivisor
    /\ backendFailed' = tdFails
    /\ steps' = << "~Counter" >>
    /\ table' = NoTable
    /\ UNCHANGED stopFailure
    /\ BlankSession
    /\ UNCHANGED << kperf, hw, clock, report, printed >>
    /\ UNCHANGED auxVars
    /\ UNCHANGED historyVars

(***************************************************************************)
(* BlockCounter::~BlockCounter(): stop(), averaged(N), pretty_print(), and  *)
(* then ~Counter().  Both destructors are noexcept.                         *)
(***************************************************************************)
DestroyBlockCounter(in, tdFails) ==
    /\ BlockCounterLive
    /\ \E r \in {stop(measured_events, counters_size, start_counters, stop_counters,
                      start_time, clock, in)},
          td \in {teardown_counters(kpc, tdFails)} :
           /\ clock' = r.clock
           /\ IF r.what # ""
              THEN /\ alive' = "terminated"
                   /\ calls' = r.calls
                   /\ outcome' = Terminated("~BlockCounter", r.what)
                   /\ measurement' = NoMeasurement
                   /\ report' = NoMeasurement
                   /\ printed' = NoMeasurement
                   /\ table' = NoTable
                   /\ steps' = << "stop" >>
                   /\ divisor' = NoDivisor
                   /\ backendFailed' = TRUE
                   /\ UNCHANGED << kpc, endSample, endClock, mapping >>
              ELSE /\ alive' = IF td.what # "" THEN "terminated" ELSE "destroyed"
                   /\ calls' = r.calls \o td.calls
                   /\ outcome' = IF td.what # "" THEN Terminated("~BlockCounter", td.what)
                                                ELSE Ok("~BlockCounter")
                   /\ measurement' = r.measurement
                   /\ report' = averaged(r.measurement, N)
                   /\ printed' = averaged(r.measurement, N)
                   /\ table' \in Tables(averaged(r.measurement, N), "long double")
                   /\ steps' = << "stop", "averaged", "pretty_print", "~Counter" >>
                   /\ divisor' = N
                   /\ backendFailed' = tdFails
                   /\ kpc' = td.kpc
                   /\ endSample' = in.sample
                   /\ endClock' = in.now
                   /\ mapping' = r.pairs
    /\ diag' = << >>
    /\ isBlock' = TRUE
    /\ N' = N
    /\ measured_events' = << >>
    /\ counters_size' = 0
    /\ start_counters' = << >>
    /\ stop_counters' = << >>
    /\ start_time' = 0
    /\ UNCHANGED << kperf, hw, started, baseSample, baseClock, startCaps, restarted,
                    restopped >>
    /\ UNCHANGED auxVars
    /\ UNCHANGED stopFailure

(***************************************************************************)
(* The caller prints the Measurement stop() has just returned: as it is,   *)
(*     measurement.pretty_print();                                         *)
(* or averaged, as basic_usage() of test.cpp does,                         *)
(*     measurement.averaged(n).pretty_print();                             *)
(* D is the value type of the Measurement printed, it the order in which   *)
(* pretty_print() goes through its map.                                    *)
(***************************************************************************)
PrintInputs ==
    [D : {"uint64_t"}, n : {NoDivisor}] \cup [D : {"long double"}, n : BlockDivisors]

\* the stop() of a Counter has just returned a Measurement to the caller
HoldsMeasurement ==
    CounterLive /\ outcome.op = "stop" /\ outcome.kind = "measurement"

PrintMeasurement(D, n, it) ==
    /\ HoldsMeasurement
    /\ table' = pretty_print(IF D = "uint64_t" THEN measurement
                                               ELSE averaged(measurement, n), D, it)
    /\ divisor' = n
    /\ outcome' = Ok("pretty_print")
    /\ steps' = IF D = "uint64_t" THEN << "pretty_print" >>
                                  ELSE << "averaged", "pretty_print" >>
    /\ calls' = << >>
    /\ diag' = << >>
    /\ backendFailed' = FALSE
    /\ UNCHANGED << kperf, hw, kpc, clock, alive, measurement, report, printed,
                    stopFailure >>
    /\ UNCHANGED sessionVars
    /\ UNCHANGED historyVars
    /\ UNCHANGED auxVars

\* the constructors, start(), stop() and the destructors
SessionHandlers ==
    \/ /\ CanConstruct
       /\ \E evs \in RequestLists, dl \in {"ok", "dlopen_fails", "symbol_missing"} :
              ConstructCounter(evs, dl)
    \/ /\ CanConstruct
       /\ \E n \in BlockDivisors, evs \in RequestLists :
              \E b \in BlockInputs(evs) :
                  ConstructBlockCounter(n, evs, b.dl, b.in, b.tdFails)
    \/ /\ CounterLive
       /\ \E in \in StartInputs(measured_events) : Start(in)
    \/ /\ CounterLive
       /\ \E in \in StopInputs : Stop(in)
    \/ /\ CounterLive
       /\ \E tdFails \in BOOLEAN : DestroyCounter(tdFails)
    \/ /\ BlockCounterLive
       /\ \E b \in BlockExitInputs : DestroyBlockCounter(b.in, b.tdFails)

Next ==
    \/ SessionHandlers
    \/ /\ HoldsMeasurement
       /\ \E p \in PrintInputs, it \in IterationOrders(DOMAIN measurement.data) :
              PrintMeasurement(p.D, p.n, it)

Spec == Init /\ [][Next]_vars

(***************************************************************************)
(* Measurement::averaged as a function of its own: any Measurement over two *)
(* events, averaged with any divisor.                                       *)
(***************************************************************************)
(***************************************************************************)
(* A caller that catches the std::runtime_error of a stop() and goes on:   *)
(* the session is still there, it can be used or destroyed and another one *)
(* constructed.                                                            *)
(***************************************************************************)
CatchStopError ==
    /\ alive = "live"
    /\ ~isBlock
    /\ outcome.op = "stop"
    /\ outcome.kind = "error"
    /\ outcome' = Ok("catch")
    /\ stopFailure' = "live"
    /\ steps' = << >>
    /\ calls' = << >>
    /\ backendFailed' = FALSE
    /\ UNCHANGED << kperf, hw, kpc, clock, alive, measurement, report, diag, divisor,
                    printed, table >>
    /\ UNCHANGED sessionVars
    /\ UNCHANGED historyVars
    /\ UNCHANGED auxVars

NextCatch ==
    \/ SessionHandlers
    \/ CatchStopError

SpecCatch == Init /\ [][NextCatch]_vars

(***************************************************************************)
(* PerfCounter::load_kperf() of the first version of the library, called   *)
(* by the constructors of PerfCounter objects on several threads:          *)
(*     static void *kperf = nullptr;                                       *)
(*     if (kperf) return kperf;                                            *)
(*     kperf = dlopen(KPERF_FRAMEWORK_PATH, RTLD_LAZY);                    *)
(*     if (!kperf) { throw ... }                                           *)
(*     return kperf;                                                       *)
(* The static is a plain pointer: its reads and writes are steps of their  *)
(* own and interleave with those of the other threads.                     *)
(***************************************************************************)
Threads == 1..NumThreads

\* everything but the static handle, the threads and the count of dlopen calls
counterVars ==
    << hw, kpc, clock, alive, isBlock, N, measured_events, counters_size,
       start_counters, stop_counters, start_time, measurement, report, calls, diag,
       outcome, started, baseSample, baseClock, startCaps, endSample, endClock,
       mapping, restarted, restopped, divisor, backendFailed, steps, printed, table, other,
       perf, stopFailure >>

InitLoad ==
    /\ kperf = "null"
    /\ threads = [t \in Threads |-> [pc |-> "call", temp |-> "null", result |-> "none"]]
    /\ dlopens = 0
    /\ hw = [counter_count |-> 0, config_count |-> 0]
    /\ kpc = [config |-> << >>, forced |-> FALSE, counting |-> FALSE,
              thread_counting |-> FALSE]
    /\ clock = 1
    /\ alive = "none"
    /\ isBlock = FALSE
    /\ N = 0
    /\ measured_events = << >>
    /\ counters_size = 0
    /\ start_counters = << >>
    /\ stop_counters = << >>
    /\ start_time = 0
    /\ measurement = NoMeasurement
    /\ report = NoMeasurement
    /\ calls = << >>
    /\ diag = << >>
    /\ outcome = Ok("init")
    /\ started = FALSE
    /\ baseSample = << >>
    /\ baseClock = 0
    /\ startCaps = << >>
    /\ endSample = << >>
    /\ endClock = 0
    /\ mapping = << >>
    /\ restarted = FALSE
    /\ restopped = FALSE
    /\ divisor = NoDivisor
    /\ backendFailed = FALSE
    /\ steps = << >>
    /\ printed = NoMeasurement
    /\ table = NoTable
    /\ other = NoSession
    /\ perf = NoPerfCounter
    /\ stopFailure = "no"

\* if (kperf) return kperf;
LoadCheck(t) ==
    /\ threads[t].pc = "call"
    /\ threads' = [threads EXCEPT ![t] =
                       IF kperf # "null"
                       THEN [@ EXCEPT !.pc = "returned", !.result = kperf]
                       ELSE [@ EXCEPT !.pc = "open"]]
    /\ UNCHANGED << kperf, dlopens >>
    /\ UNCHANGED counterVars

\* dlopen(KPERF_FRAMEWORK_PATH, RTLD_LAZY): the call returns r
LoadOpen(t, r) ==
    /\ threads[t].pc = "open"
    /\ threads' = [threads EXCEPT ![t] = [@ EXCEPT !.pc = "store", !.temp = r]]
    /\ dlopens' = dlopens + 1
    /\ UNCHANGED kperf
    /\ UNCHANGED counterVars

\* kperf = <what dlopen returned>
LoadStore(t) ==
    /\ threads[t].pc = "store"
    /\ kperf' = threads[t].temp
    /\ threads' = [threads EXCEPT ![t] = [@ EXCEPT !.pc = "test"]]
    /\ UNCHANGED dlopens
    /\ UNCHANGED counterVars

\* if (!kperf) { throw ... } return kperf;
LoadTest(t) ==
    /\ threads[t].pc = "test"
    /\ threads' = [threads EXCEPT ![t] =
                       IF kperf = "null"
                       THEN [@ EXCEPT !.pc = "threw"]
                       ELSE [@ EXCEPT !.pc = "returned", !.result = kperf]]
    /\ UNCHANGED << kperf, dlopens >>
    /\ UNCHANGED counterVars

NextLoad ==
    \E t \in Threads :
        \/ LoadCheck(t)
        \/ \E r \in {"handle", "null"} : LoadOpen(t, r)
        \/ LoadStore(t)
        \/ LoadTest(t)

SpecLoad == InitLoad /\ [][NextLoad]_vars

(***************************************************************************)
(* Two Counter objects alive on one thread:                                *)
(*     Perf::Counter a(...); Perf::Counter b(...);                         *)
(* The fields of the first are the session variables, those of the second  *)
(* the record other.  The kernel state kpc, the clock and the static       *)
(* handle are the same for both.                                           *)
(***************************************************************************)
\* the handlers of the second object, as they are named in outcome
OtherOps == {"other.Counter", "other.start", "other.stop", "other.~Counter"}

\* the second object can be constructed: the first one is alive
CanConstructOther == CounterLive /\ ~other.alive

\* the second object is alive next to the first one
OtherLive == CounterLive /\ other.alive

\* what the handlers of the second object leave alone
firstSession ==
    << hw, alive, isBlock, N, measured_events, counters_size, start_counters,
       stop_counters, start_time, measurement, report, started, baseSample, baseClock,
       startCaps, endSample, endClock, mapping, restarted, restopped, divisor, printed, table,
       threads, dlopens, perf, stopFailure >>

\* Counter::Counter(measured_events) for the second object
ConstructOther(evs, dl) ==
    /\ CanConstructOther
    /\ LET ld == load_kperf(kperf, dl)
       IN  /\ kperf' = ld.kperf
           /\ backendFailed' = (ld.what # "")
           /\ steps' = << "Counter" >>
           /\ diag' = << >>
           /\ IF ld.what # ""
              THEN /\ other' = NoSession
                   /\ calls' = ld.calls
                   /\ outcome' = Threw("other.Counter", ld.what)
              ELSE /\ \E sc \in Uninits(hw.counter_count) :
                          other' = [alive |-> TRUE, measured_events |-> evs,
                                    counters_size |-> hw.counter_count,
                                    start_counters |-> sc, stop_counters |-> sc,
                                    start_time |-> 0, started |-> FALSE,
                                    measurement |-> NoMeasurement]
                   /\ calls' = Append(ld.calls, "kpc_get_counter_count")
                   /\ outcome' = Ok("other.Counter")
    /\ UNCHANGED << kpc, clock >>
    /\ UNCHANGED firstSession

\* Counter::start() on the second object
StartOther(in) ==
    /\ OtherLive
    /\ \E r \in {start(other.measured_events, other.start_counters, other.start_time,
                       kpc, clock, in)} :
           /\ kpc' = r.kpc
           /\ clock' = r.clock
           /\ calls' = r.calls
           /\ diag' = r.diag
           /\ other' = [other EXCEPT !.start_time = r.start_time,
                                     !.start_counters = r.start_counters,
                                     !.started = (@ \/ r.what = ""),
                                     !.measurement = NoMeasurement]
           /\ outcome' = IF r.what = "" THEN Ok("other.start")
                                       ELSE Threw("other.start", r.what)
    /\ backendFailed' = (in.fail # "none")
    /\ steps' = << "start" >>
    /\ UNCHANGED kperf
    /\ UNCHANGED firstSession

\* Counter::stop() on the second object
StopOther(in) ==
    /\ OtherLive
    /\ \E r \in {stop(other.measured_events, other.counters_size, other.start_counters,
                      other.stop_counters, other.start_time, clock, in)} :
           /\ clock' = r.clock
           /\ calls' = r.calls
           /\ other' = [other EXCEPT !.stop_counters = r.stop_counters,
                                     !.measurement = r.measurement]
           /\ outcome' = IF r.what = "" THEN Returned("other.stop")
                                       ELSE Threw("other.stop", r.what)
    /\ backendFailed' = in.readFails
    /\ steps' = << "stop" >>
    /\ diag' = << >>
    /\ UNCHANGED << kperf, kpc >>
    /\ UNCHANGED firstSession

\* Counter::~Counter() on the second object
DestroyOther(tdFails) ==
    /\ OtherLive
    /\ LET td == teardown_counters(kpc, tdFails)
       IN  /\ kpc' = td.kpc
           /\ calls' = td.calls
           /\ outcome' = IF td.what # "" THEN Terminated("other.~Counter", td.what)
                                        ELSE Ok("other.~Counter")
    /\ other' = NoSession
    /\ backendFailed' = tdFails
    /\ steps' = << "~Counter" >>
    /\ diag' = << >>
    /\ UNCHANGED << kperf, clock >>
    /\ UNCHANGED firstSession

\* the inputs of a handler of the second object: the clock stands still and
\* the backend returns one and the same sample
OtherInputs(S) ==
    {i \in S : i.now = clock /\ i.sample = Unused(Samples(hw.counter_count))}

\* the request lists of the two objects
TwoRequestLists == {<< cycles >>, << instructions_retired, cycles >>}

\* the first object alone, as a plain Counter
FirstAlone ==
    \/ /\ CanConstruct
       /\ \E evs \in TwoRequestLists : ConstructCounter(evs, "ok")
    \/ /\ CounterLive
       /\ ~other.alive
       /\ \E in \in {i \in StartInputs(measured_events) : i.fail = "none"} : Start(in)
    \/ /\ CounterLive
       /\ \E in \in StopInputs : Stop(in)
    \/ /\ CounterLive
       /\ ~other.alive
       /\ DestroyCounter(FALSE)

NextTwo ==
    \/ FirstAlone
    \/ /\ CanConstructOther
       /\ \E evs \in TwoRequestLists, dl \in {"ok", "symbol_missing"} :
              ConstructOther(evs, dl)
    \/ /\ OtherLive
       /\ \E in \in OtherInputs(StartInputs(other.measured_events)) : StartOther(in)
    \/ /\ OtherLive
       /\ \E in \in OtherInputs(StopInputs) : StopOther(in)
    \/ /\ OtherLive
       /\ \E tdFails \in BOOLEAN : DestroyOther(tdFails)

SpecTwo == Init /\ [][NextTwo]_vars

AvgEvents == {instructions_retired, cycles}

\* a value of type Event that is none of the enumerators, as
\* static_cast<Perf::Event>(0x013D) gives one
UnrecognizedEvent == reference_cycles + 1

\* the key sets of the Measurements the caller holds: those over AvgEvents,
\* two with a code the enumeration does not name, and the two events of the
\* last-level cache
MeasurementKeys ==
    (SUBSET AvgEvents)
        \cup {{UnrecognizedEvent}, {cycles, UnrecognizedEvent}, {llc_misses, llc_references}}

AvgMeasurements ==
    [kind : {"measurement"},
     data : UNION {[S -> 0..(Modulus - 1)] : S \in MeasurementKeys},
     time_delta_ns : 0..MaxClock]

InitAvg ==
    /\ kperf = "unset"
    /\ hw = [counter_count |-> 0, config_count |-> 0]
    /\ kpc = [config |-> << >>, forced |-> FALSE, counting |-> FALSE,
              thread_counting |-> FALSE]
    /\ clock = 1
    /\ alive = "none"
    /\ isBlock = FALSE
    /\ N = 0
    /\ measured_events = << >>
    /\ counters_size = 0
    /\ start_counters = << >>
    /\ stop_counters = << >>
    /\ start_time = 0
    /\ measurement \in AvgMeasurements
    /\ report = NoMeasurement
    /\ calls = << >>
    /\ diag = << >>
    /\ outcome = Ok("init")
    /\ started = FALSE
    /\ baseSample = << >>
    /\ baseClock = 0
    /\ startCaps = << >>
    /\ endSample = << >>
    /\ endClock = 0
    /\ mapping = << >>
    /\ restarted = FALSE
    /\ restopped = FALSE
    /\ divisor = NoDivisor
    /\ backendFailed = FALSE
    /\ steps = << >>
    /\ printed = NoMeasurement
    /\ table = NoTable
    /\ threads = << >>
    /\ dlopens = 0
    /\ other = NoSession
    /\ perf = NoPerfCounter
    /\ stopFailure = "no"

\* an averaged() that moves the map out of the Measurement it is called on
AveragedMovingFrom(n) ==
    /\ measurement.kind = "measurement"
    /\ report' = averaged(measurement, n)
    /\ measurement' = [measurement EXCEPT !.data = << >>]
    /\ divisor' = n
    /\ outcome' = Returned("averaged")
    /\ steps' = << "averaged" >>
    /\ UNCHANGED stopFailure
    /\ UNCHANGED << kperf, hw, kpc, clock, alive, calls, diag, backendFailed,
                    printed, table >>
    /\ UNCHANGED auxVars
    /\ UNCHANGED sessionVars
    /\ UNCHANGED historyVars

\* m.averaged(n) on the Measurement the caller holds
Averaged(n) ==
    /\ measurement.kind = "measurement"
    /\ report' = averaged(measurement, n)
    /\ divisor' = n
    /\ outcome' = Returned("averaged")
    /\ steps' = << "averaged" >>
    /\ UNCHANGED stopFailure
    /\ UNCHANGED << kperf, hw, kpc, clock, alive, measurement, calls, diag, backendFailed,
                    printed, table >>
    /\ UNCHANGED auxVars
    /\ UNCHANGED sessionVars
    /\ UNCHANGED historyVars

\* m.pretty_print() on the Measurement the caller holds (D = "uint64_t"), or
\* on the Measurement the last averaged() returned (D = "long double")
PrettyPrinted(D, it) ==
    /\ measurement.kind = "measurement"
    /\ D = "long double" => report.kind = "measurement"
    /\ table' = pretty_print(IF D = "uint64_t" THEN measurement ELSE report, D, it)
    /\ outcome' = Ok("pretty_print")
    /\ steps' = << "pretty_print" >>
    /\ UNCHANGED stopFailure
    /\ UNCHANGED << kperf, hw, kpc, clock, alive, measurement, report, divisor, calls,
                    diag, backendFailed, printed >>
    /\ UNCHANGED auxVars
    /\ UNCHANGED sessionVars
    /\ UNCHANGED historyVars

NextAvg ==
    \/ \E n \in 0..MaxDivisor : Averaged(n)
    \/ \E D \in {"uint64_t", "long double"}, it \in IterationOrders(DOMAIN measurement.data) :
           PrettyPrinted(D, it)

SpecAvg == InitAvg /\ [][NextAvg]_vars

(***************************************************************************)
(* PerfCounter, the first version of the library: an object that measures  *)
(* from its construction to its destruction,                               *)
(*     const auto ctr = PerfCounter(test_rep_cnt);                         *)
(* Its snapshot has four fields: read() returns counters[0..3] and         *)
(* configure() writes configs[0..3], whatever the two counts the backend   *)
(* reports.  An access past the end of an array is undefined behaviour:    *)
(* a read finds what the memory holds, a write is not noticed, or the      *)
(* process is ended.  The callers catch nothing.  The build is the one for *)
(* x86_64, in which configure() assigns the four words.                    *)
(***************************************************************************)
\* the fields of CounterSnapshot
SnapshotSize == 4

\* the backend of a PerfCounter reports between 0 and MaxPerfSlots counters
\* and configuration words
MaxPerfSlots == 5

INTEL_CONF_CTR_EDGE_DETECT == 262144

\* the events configure() asks for, in the order of configs[0..3] and of
\* the fields of CounterSnapshot
PerfEvents == << instructions_retired, llc_misses, branch_instruction_retired, cycles >>

\* the header the destructor prints
PerfHeader == << "instructions", "llc misses", "branches", "cycles" >>

\* (0xFFFF & baseconf) | INTEL_CONF_CTR_USER_MODE
\*                     | (edge_detect ? INTEL_CONF_CTR_EDGE_DETECT : 0x0)
make_config(baseconf, edge_detect) ==
    (baseconf % 65536) + INTEL_CONF_CTR_USER_MODE
        + (IF edge_detect THEN INTEL_CONF_CTR_EDGE_DETECT ELSE 0)

\* what the memory after the end of counters may hold
Junk == { [i \in 1..SnapshotSize |-> 0], [i \in 1..SnapshotSize |-> Modulus - 1] }

\* PerfCounter::load_kperf() called by one thread, and hook_kperf_symbols()
perf_load_kperf(handle, dl) ==
    LET opened == IF handle # "null" THEN handle
                  ELSE IF dl = "dlopen_fails" THEN "null" ELSE "handle"
        c1 == IF handle # "null" THEN << >> ELSE << "dlopen" >>
    IN  IF opened = "null"
        THEN [kperf |-> opened, calls |-> c1, what |-> "Unable to load kperf"]
        ELSE IF dl = "symbol_missing"
        THEN [kperf |-> opened, calls |-> Append(c1, "dlsym"),
              what |-> "kperf missing symbol"]
        ELSE [kperf |-> opened, calls |-> Append(c1, "dlsym"), what |-> ""]

\* PerfCounter::configure(): k is the kernel state before, garbage the
\* uninitialised configs array, fail the backend call that fails.  The four
\* assignments are made whatever configs_cnt is: written are the indices
\* they use, the array keeps those it has room for.
configure(k, garbage, fail) ==
    LET configs == [i \in 1..hw.config_count |->
                        IF i <= SnapshotSize THEN make_config(PerfEvents[i], FALSE)
                                             ELSE garbage[i]]
        c1 == << "kpc_get_config_count", "kpc_set_config" >>
        c2 == Append(c1, "kpc_force_all_ctrs_set")
        c3 == Append(c2, "kpc_set_counting")
        c4 == Append(c3, "kpc_set_thread_counting")
        k1 == [k EXCEPT !.config = configs]
        k2 == [k1 EXCEPT !.forced = TRUE]
        k3 == [k2 EXCEPT !.counting = TRUE]
        k4 == [k3 EXCEPT !.thread_counting = TRUE]
        written == 0..(SnapshotSize - 1)
    IN  CASE fail = "kpc_set_config" ->
               [kpc |-> k, calls |-> c1, written |-> written,
                what |-> "Could not configure counters"]
          [] fail = "kpc_force_all_ctrs_set" ->
               [kpc |-> k1, calls |-> c2, written |-> written,
                what |-> "Could not force ctrs"]
          [] fail = "kpc_set_counting" ->
               [kpc |-> k2, calls |-> c3, written |-> written,
                what |-> "Failed to enable counting"]
          [] fail = "kpc_set_thread_counting" ->
               [kpc |-> k3, calls |-> c4, written |-> written,
                what |-> "Failed to enable counting"]
          [] OTHER ->
               [kpc |-> k4, calls |-> c4, written |-> written, what |-> ""]

\* PerfCounter::read(): kpc_get_thread_counters fills counters with sample,
\* the snapshot is counters[0..3]; junk is what lies after the array
read(counters, sample, junk, fails) ==
    IF fails
    THEN [counters |-> counters, snapshot |-> << >>, indices |-> {},
          what |-> "Failed to read current kpc config"]
    ELSE [counters |-> sample,
          snapshot |-> [i \in 1..SnapshotSize |->
                            IF i <= Len(sample) THEN sample[i] ELSE junk[i]],
          indices |-> 0..(SnapshotSize - 1),
          what |-> ""]

\* CounterSnapshot::operator-: the four differences on uint64_t
SnapshotMinus(a, b) == [i \in 1..SnapshotSize |-> Delta(a[i], b[i])]

\* the two lines the destructor writes: avg(c) of every field of delta
PerfReport(delta, repetition_cnt) ==
    [kind |-> "table",
     columns |-> PerfEvents,
     header |-> PerfHeader,
     row |-> [i \in 1..SnapshotSize |->
                  to_string_long_double(Quotient(delta[i], repetition_cnt))]]

InitPerf ==
    /\ kperf = "null"
    /\ hw \in [counter_count : 0..MaxPerfSlots, config_count : 0..MaxPerfSlots]
    /\ kpc = [config |-> [i \in 1..hw.config_count |-> 0], forced |-> FALSE,
              counting |-> FALSE, thread_counting |-> FALSE]
    /\ clock = 1
    /\ alive = "none"
    /\ isBlock = FALSE
    /\ N = 0
    /\ measured_events = << >>
    /\ counters_size = 0
    /\ start_counters = << >>
    /\ stop_counters = << >>
    /\ start_time = 0
    /\ measurement = NoMeasurement
    /\ report = NoMeasurement
    /\ calls = << >>
    /\ diag = << >>
    /\ outcome = Ok("init")
    /\ started = FALSE
    /\ baseSample = << >>
    /\ baseClock = 0
    /\ startCaps = << >>
    /\ endSample = << >>
    /\ endClock = 0
    /\ mapping = << >>
    /\ restarted = FALSE
    /\ restopped = FALSE
    /\ divisor = NoDivisor
    /\ backendFailed = FALSE
    /\ steps = << >>
    /\ printed = NoMeasurement
    /\ table = NoTable
    /\ threads = << >>
    /\ dlopens = 0
    /\ other = NoSession
    /\ perf = NoPerfCounter
    /\ stopFailure = "no"

\* what the handlers of PerfCounter leave alone
perfFrame ==
    << hw, clock, alive, measurement, report, diag, divisor, printed, threads, dlopens,
       other, stopFailure >>

\* no PerfCounter exists and no exception has ended the process
CanConstructPerf ==
    perf.alive \in {"none", "destroyed"} /\ outcome.kind \notin {"error", "terminate"}

\* a PerfCounter exists
PerfLive == perf.alive = "live" /\ outcome.kind \notin {"error", "terminate"}

\* an access past the end of an array is possible on this backend
PastTheEnd == hw.config_count < SnapshotSize \/ hw.counter_count < SnapshotSize

\* the inputs of PerfCounter(repetition_cnt): what the dynamic loader does,
\* the backend call that fails, the uninitialised configs array, the sample
\* the backend returns, the memory after counters, and whether an access
\* past the end of an array ends the process
PerfInputs ==
    LET garbages == IF hw.config_count > SnapshotSize
                    THEN UninitConfigs(hw.config_count)
                    ELSE {Unused(UninitConfigs(hw.config_count))}
        junks == IF hw.counter_count < SnapshotSize THEN Junk ELSE {Unused(Junk)}
        ubs == IF PastTheEnd THEN {"unnoticed", "crash"} ELSE {"unnoticed"}
    IN  [dl : {"ok"}, fail : {"none"}, garbage : garbages,
         sample : Samples(hw.counter_count), junk : junks, ub : ubs]
        \cup
        [dl : {"ok"}, fail : StartFailures \ {"none"}, garbage : garbages,
         sample : {Unused(Samples(hw.counter_count))}, junk : {Unused(Junk)},
         ub : {"unnoticed"}]
        \cup
        [dl : {"dlopen_fails", "symbol_missing"}, fail : {"none"},
         garbage : {Unused(UninitConfigs(hw.config_count))},
         sample : {Unused(Samples(hw.counter_count))}, junk : {Unused(Junk)},
         ub : {"unnoticed"}]

\* the inputs of ~PerfCounter(): whether the backend read fails, the sample,
\* the memory after counters, and whether a read past the end ends the
\* process
PerfExitInputs ==
    LET junks == IF hw.counter_count < SnapshotSize THEN Junk ELSE {Unused(Junk)}
        ubs == IF hw.counter_count < SnapshotSize THEN {"unnoticed", "crash"}
                                                  ELSE {"unnoticed"}
    IN  [readFails : {FALSE}, sample : Samples(hw.counter_count), junk : junks, ub : ubs]
        \cup
        [readFails : {TRUE}, sample : {Unused(Samples(hw.counter_count))},
         junk : {Unused(Junk)}, ub : {"unnoticed"}]

\* PerfCounter::PerfCounter(repetition_cnt): load_kperf(),
\* hook_kperf_symbols(), CTRS_CNT and counters, the thread's qos,
\* configure(), start = read()
ConstructPerfCounter(rep, in) ==
    /\ CanConstructPerf
    /\ LET ld == perf_load_kperf(kperf, in.dl)
           pre == ld.calls \o << "kpc_get_counter_count", "pthread_set_qos_class_self_np" >>
           cfg == configure(kpc, in.garbage, in.fail)
           rd == read(Unused(Uninits(hw.counter_count)), in.sample, in.junk,
                      in.fail = "kpc_get_thread_counters")
       IN  /\ kperf' = ld.kperf
           /\ CASE ld.what # "" ->
                     /\ calls' = ld.calls
                     /\ steps' = << "load_kperf" >>
                     /\ outcome' = Threw("PerfCounter", ld.what)
                     /\ kpc' = kpc
                     /\ perf' = NoPerfCounter
                [] in.ub = "crash" /\ hw.config_count < SnapshotSize ->
                     /\ calls' = Append(pre, "kpc_get_config_count")
                     /\ steps' = << "load_kperf", "configure" >>
                     /\ outcome' = Terminated("PerfCounter", "write past the end of configs")
                     /\ kpc' = kpc
                     /\ perf' = NoPerfCounter
                [] cfg.what # "" ->
                     /\ calls' = pre \o cfg.calls
                     /\ steps' = << "load_kperf", "configure" >>
                     /\ outcome' = Threw("PerfCounter", cfg.what)
                     /\ kpc' = cfg.kpc
                     /\ perf' = NoPerfCounter
                [] rd.what # "" ->
                     /\ calls' = (pre \o cfg.calls) \o << "kpc_get_thread_counters" >>
                     /\ steps' = << "load_kperf", "configure", "read" >>
                     /\ outcome' = Threw("PerfCounter", rd.what)
                     /\ kpc' = cfg.kpc
                     /\ perf' = NoPerfCounter
                [] in.ub = "crash" /\ hw.counter_count < SnapshotSize ->
                     /\ calls' = (pre \o cfg.calls) \o << "kpc_get_thread_counters" >>
                     /\ steps' = << "load_kperf", "configure", "read" >>
                     /\ outcome' = Terminated("PerfCounter", "read past the end of counters")
                     /\ kpc' = cfg.kpc
                     /\ perf' = NoPerfCounter
                [] OTHER ->
                     /\ calls' = (pre \o cfg.calls) \o << "kpc_get_thread_counters" >>
                     /\ steps' = << "load_kperf", "configure", "read" >>
                     /\ outcome' = Ok("PerfCounter")
                     /\ kpc' = cfg.kpc
                     /\ perf' = [alive |-> "live", repetition_cnt |-> rep,
                                 CTRS_CNT |-> hw.counter_count, counters |-> rd.counters,
                                 start |-> rd.snapshot, base |-> in.sample,
                                 end |-> << >>, delta |-> << >>,
                                 written |-> cfg.written, indices |-> rd.indices]
    /\ backendFailed' = (in.fail # "none")
    /\ table' = NoTable
    /\ UNCHANGED perfFrame
    /\ UNCHANGED sessionVars
    /\ UNCHANGED historyVars

\* PerfCounter::~PerfCounter(): delta = read() - start, the two lines of the
\* report, delete counters.  An exception of read() leaves a destructor:
\* std::terminate.
DestroyPerfCounter(in) ==
    /\ PerfLive
    /\ LET rd == read(perf.counters, in.sample, in.junk, in.readFails)
       IN  /\ calls' = << "kpc_get_thread_counters" >>
           /\ steps' = << "read" >>
           /\ CASE rd.what # "" ->
                     /\ outcome' = Terminated("~PerfCounter", rd.what)
                     /\ table' = NoTable
                     /\ perf' = [perf EXCEPT !.alive = "terminated"]
                [] in.ub = "crash" ->
                     /\ outcome' = Terminated("~PerfCounter", "read past the end of counters")
                     /\ table' = NoTable
                     /\ perf' = [perf EXCEPT !.alive = "terminated"]
                [] OTHER ->
                     /\ outcome' = Ok("~PerfCounter")
                     /\ table' = PerfReport(SnapshotMinus(rd.snapshot, perf.start),
                                            perf.repetition_cnt)
                     /\ perf' = [perf EXCEPT !.alive = "destroyed", !.counters = << >>,
                                             !.end = in.sample,
                                             !.delta = SnapshotMinus(rd.snapshot, perf.start),
                                             !.indices = @ \cup rd.indices]
    /\ backendFailed' = in.readFails
    /\ UNCHANGED << kperf, kpc >>
    /\ UNCHANGED perfFrame
    /\ UNCHANGED sessionVars
    /\ UNCHANGED historyVars

NextPerf ==
    \/ /\ CanConstructPerf
       /\ \E rep \in 0..MaxDivisor, in \in PerfInputs : ConstructPerfCounter(rep, in)
    \/ /\ PerfLive
       /\ \E in \in PerfExitInputs : DestroyPerfCounter(in)

SpecPerf == InitPerf /\ [][NextPerf]_vars

(***************************************************************************)
(* Properties.                                                             *)
(***************************************************************************)

\* the last handler was a stop() on a Counter and it returned a Measurement
StopReturned == outcome.op = "stop" /\ outcome.kind = "measurement"

\* C1: stop() called on a session on which no start() has completed fails
\* with InvalidSessionState and returns no Measurement.
C1_StopWithoutStartFails ==
    (outcome.op = "stop" /\ ~started) =>
        /\ outcome.kind = "error"
        /\ outcome.what = "InvalidSessionState"
        /\ measurement = NoMeasurement

\* the slots (1-based) stop() reports on: the first
\* min(available slots, requested events)
MappedSlots ==
    1..(IF counters_size < Len(measured_events) THEN counters_size
                                                ELSE Len(measured_events))

\* slot i is the first one the event requested for it was requested for
FirstRequest(i) == \A j \in 1..(i - 1) : measured_events[j] # measured_events[i]

\* (end - baseline) modulo the word size, for slot i of the last completed
\* start() and stop()
SlotDelta(i) == (endSample[i] - baseSample[i]) % Modulus

\* C2 (as amended): after a start()/stop() cycle, for every mapped event whose
\* first request is for slot i, the value stop() reports for the event is
\* (end[i] - baseline[i]) modulo the word size, baseline being the sample
\* start() read and end the sample stop() read.
C2_ReportedValueIsFirstSlotDelta ==
    (StopReturned /\ started) =>
        \A i \in MappedSlots :
            FirstRequest(i) =>
                /\ measured_events[i] \in DOMAIN measurement.data
                /\ measurement.data[measured_events[i]] = SlotDelta(i)

\* a cycle over two different events in which the counter of slot 1 went up
\* and the counter of slot 2 wrapped around
C2_Witness ==
    /\ StopReturned
    /\ started
    /\ measured_events = << instructions_retired, cycles >>
    /\ counters_size >= 2
    /\ endSample[1] > baseSample[1]
    /\ endSample[2] < baseSample[2]
    /\ measurement.data[cycles] = endSample[2] - baseSample[2] + Modulus

\* C2 (as stated): for every mapped event at slot i, the value stop() reports
\* for that event is (end[i] - baseline[i]) modulo the word size.
C2_EverySlotDeltaReported ==
    (StopReturned /\ started) =>
        \A i \in MappedSlots :
            /\ measured_events[i] \in DOMAIN measurement.data
            /\ measurement.data[measured_events[i]] = SlotDelta(i)

\* the request list cut to its first n events, each paired with its slot
RequestPairs(n) == [i \in 1..n |-> << measured_events[i], i - 1 >>]

\* the events of the request list
Requested == {measured_events[i] : i \in 1..Len(measured_events)}

C6_MappingIsTruncatedRequest ==
    Len(measured_events) > counters_size =>
        /\ StopReturned =>
               /\ Len(mapping) = counters_size
               /\ mapping = RequestPairs(counters_size)
        /\ outcome.kind \in {"error", "terminate"} => backendFailed

\* the six default events on fewer slots, counted over one cycle
C6_Witness ==
    /\ StopReturned
    /\ started
    /\ measured_events = DefaultEvents
    /\ counters_size = 2
    /\ mapping = << << instructions_retired, 0 >>, << l1_misses, 1 >> >>

\* the line a diagnostic about dropped events is not: the one line the code
\* prints reports registers left over
ReportsDroppedEvents(line) == line # MoreRegistersMsg

\* C7: whenever more events are requested than slots are available, a
\* diagnostic reporting the dropped events is emitted, and no error is raised.
C7_DroppedEventsAreReported ==
    (/\ outcome.op \in {"start", "BlockCounter"}
     /\ ~backendFailed
     /\ Len(measured_events) > counters_size) =>
        /\ \E i \in 1..Len(diag) : ReportsDroppedEvents(diag[i])
        /\ outcome.kind = "ok"

\* the positions of a backend call in the calls of the last handler
Positions(call) == {i \in 1..Len(calls) : calls[i] = call}

\* in the calls of the last handler, every call a comes before every call b
Precedes(a, b) == \A i \in Positions(a), j \in Positions(b) : i < j

\* the last handler ran start(): start() itself, or the constructor of a
\* BlockCounter
RanStart == outcome.op \in {"start", "BlockCounter"}

\* C8: in every start() the calls that enable counting come before the capture
\* of the start instant and the capture of the start instant comes before the
\* read of the baseline sample; a start() that completes has made all three.
C8_StartOrder ==
    RanStart =>
        /\ Precedes("kpc_set_counting", "steady_clock::now")
        /\ Precedes("kpc_set_thread_counting", "steady_clock::now")
        /\ Precedes("steady_clock::now", "kpc_get_thread_counters")
        /\ Positions("steady_clock::now") # {} => Positions("kpc_set_counting") # {}
        /\ Positions("kpc_get_thread_counters") # {} => Positions("steady_clock::now") # {}
        /\ outcome.kind = "ok" =>
               /\ Cardinality(Positions("kpc_set_counting")) = 1
               /\ Cardinality(Positions("steady_clock::now")) = 1
               /\ Cardinality(Positions("kpc_get_thread_counters")) = 1

\* a start() that completed on a Counter, having enabled counting, taken the
\* instant and read the baseline
C8_Witness ==
    /\ outcome = Ok("start")
    /\ started
    /\ kpc.counting
    /\ start_time = baseClock
    /\ start_counters = baseSample
    /\ counters_size >= 1
    /\ Positions("kpc_get_thread_counters") # {}

\* the last handler ran stop(): stop() itself, or the destructor of a
\* BlockCounter
RanStop == outcome.op \in {"stop", "~BlockCounter"}

\* C9: in every stop() the end sample is read before the end instant is
\* captured, and over a cycle the four captures are made in the order
\* clock, counters, counters, clock.
C9_StopOrder ==
    RanStop =>
        /\ Precedes("kpc_get_thread_counters", "steady_clock::now")
        /\ Positions("steady_clock::now") # {} => Positions("kpc_get_thread_counters") # {}
        /\ measurement # NoMeasurement =>
               /\ Cardinality(Positions("kpc_get_thread_counters")) = 1
               /\ Cardinality(Positions("steady_clock::now")) = 1
        /\ (measurement # NoMeasurement /\ started) =>
               startCaps \o SubSeq(calls, 1, 2) =
                   << "steady_clock::now", "kpc_get_thread_counters",
                      "kpc_get_thread_counters", "steady_clock::now" >>

\* a cycle on a Counter during which the clock advanced
C9_Witness ==
    /\ StopReturned
    /\ started
    /\ Len(startCaps) = 2
    /\ Len(calls) = 2
    /\ endClock > baseClock
    /\ measurement.time_delta_ns = endClock - baseClock

\* the events stop() reports on
ReportedEvents == {measured_events[i] : i \in MappedSlots}

\* the slot an event is first requested for
FirstSlotOf(e) == CHOOSE i \in MappedSlots : measured_events[i] = e /\ FirstRequest(i)

\* the Measurement of the cycle made of the last completed start() and the
\* last completed stop(), from what the clock and the backend returned to
\* these two calls
CycleMeasurement ==
    [kind |-> "measurement",
     data |-> [e \in ReportedEvents |-> SlotDelta(FirstSlotOf(e))],
     time_delta_ns |-> endClock - baseClock]

\* C10: start() can be called again after a stop(), and the Measurement every
\* stop() returns is the one of the cycle begun by the most recent start():
\* it is a function of the sample and the instant that start() captured and
\* of the sample and the instant this stop() captured, and of nothing else.
C10_MeasurementFromLastStart ==
    /\ (StopReturned /\ started) => measurement = CycleMeasurement
    /\ StopReturned =>
           ENABLED (\E in \in StartInputs(measured_events) :
                        Start(in) /\ outcome' = Ok("start"))

\* the stop() of a second or later cycle of a session, with a counter that
\* moved during the cycle
C10_Witness ==
    /\ StopReturned
    /\ started
    /\ restarted
    /\ counters_size >= 1
    /\ measured_events # << >>
    /\ baseSample # endSample
    /\ measurement = CycleMeasurement

\* C3: for n > 0, averaged(n) returns a Measurement over the same events as
\* its source, each value being the source's delta divided by n and the
\* elapsed time the source's elapsed time divided by n; averaged(1) returns
\* the source's deltas themselves.
IsQuotient(q, x, n) == q.cls = "finite" /\ q.den > 0 /\ q.num * n = x * q.den

C3_AveragedDividesEveryValue ==
    (outcome.op = "averaged" /\ divisor > 0) =>
        /\ report.kind = "measurement"
        /\ DOMAIN report.data = DOMAIN measurement.data
        /\ \A e \in DOMAIN measurement.data :
               /\ IsQuotient(report.data[e], measurement.data[e], divisor)
               /\ divisor = 1 =>
                      report.data[e].num = measurement.data[e] /\ report.data[e].den = 1
        /\ IsQuotient(report.time_delta_ns, measurement.time_delta_ns, divisor)

\* an averaged(2) of a Measurement with an odd delta and an odd elapsed time
C3_Witness ==
    /\ outcome.op = "averaged"
    /\ divisor = 2
    /\ DOMAIN measurement.data = AvgEvents
    /\ measurement.data[cycles] = 3
    /\ measurement.time_delta_ns = 1
    /\ report.data[cycles] = [cls |-> "finite", num |-> 3, den |-> 2]

\* C4: averaged(0) fails with InvalidDivisor and produces no Measurement,
\* also when ~BlockCounter() calls it for a BlockCounter constructed with
\* N = 0.
C4_AveragedZeroFails ==
    divisor = 0 =>
        /\ report = NoMeasurement
        /\ outcome.kind = "error"
        /\ outcome.what = "InvalidDivisor"

\* C11: the constructor of a BlockCounter runs start() exactly once, as its
\* last action; its destructor runs stop() first and exactly once and, stop()
\* having returned, averaged(N) with the N of the constructor and then
\* pretty_print() of the result, once each and in this order.  (When the
\* backend read of stop() fails the process ends in stop().)
C11_BlockCounterSequence ==
    /\ outcome = Ok("BlockCounter") =>
           /\ steps = << "Counter", "start" >>
           /\ started
           /\ Cardinality(Positions("kpc_get_thread_counters")) = 1
    /\ outcome.op = "~BlockCounter" =>
           /\ steps[1] = "stop"
           /\ Cardinality({i \in 1..Len(steps) : steps[i] = "stop"}) = 1
           /\ IF backendFailed /\ measurement = NoMeasurement
              THEN steps = << "stop" >> /\ outcome.kind = "terminate"
              ELSE /\ steps = << "stop", "averaged", "pretty_print", "~Counter" >>
                   /\ divisor = N
                   /\ printed = report
                   /\ DOMAIN report.data = DOMAIN measurement.data
                   /\ N > 0 =>
                          /\ \A e \in DOMAIN measurement.data :
                                 IsQuotient(report.data[e], measurement.data[e], N)
                          /\ IsQuotient(report.time_delta_ns,
                                        measurement.time_delta_ns, N)

\* the end of the scope of a BlockCounter constructed with N = 2, one of
\* whose counters moved by an odd amount
C11_Witness ==
    /\ outcome = Ok("~BlockCounter")
    /\ N = 2
    /\ steps = << "stop", "averaged", "pretty_print", "~Counter" >>
    /\ \E e \in DOMAIN measurement.data : measurement.data[e] % 2 = 1
    /\ printed.kind = "measurement"

\* the last handler was a destructor and it reached teardown_counters()
RanTeardown ==
    /\ outcome.op \in {"~Counter", "~BlockCounter"}
    /\ steps[Len(steps)] = "~Counter"

\* C12: the destruction of a session, whatever was called on it before, makes
\* the backend call that releases the counters, and once the session is
\* destroyed counting is disabled for the thread.
C12_DestructionDisablesCounting ==
    RanTeardown =>
        /\ Positions("kpc_force_all_ctrs_set") # {}
        /\ alive = "destroyed" => ~kpc.counting /\ ~kpc.thread_counting

\* C13: a backend failure during teardown is not thrown: the destructor of a
\* session returns to its caller whatever the backend returns.
C13_TeardownNeverThrows ==
    RanTeardown =>
        /\ outcome.kind = "ok"
        /\ alive = "destroyed"

\* the backend calls the last handler made
CallsMade == {calls[i] : i \in 1..Len(calls)}

\* the configuration slots a start() writes for the requested events
ConfiguredSlots ==
    1..(IF hw.config_count < Len(measured_events) THEN hw.config_count
                                                   ELSE Len(measured_events))

\* the word of an event: its low 16 bits and the user-mode flag
EncodedEvent(e) == (e % 65536) + 65536

\* C14 (as amended): the construction of a session loads the backend and
\* queries the slot count, and makes no other backend call: it writes no
\* configuration.  The events are encoded and written to the backend by every
\* start(), before it enables counting.
C14_StartWritesConfiguration ==
    /\ outcome = Ok("Counter") =>
           /\ CallsMade \subseteq {"dlopen", "dlsym", "kpc_get_counter_count"}
           /\ "kpc_get_counter_count" \in CallsMade
           /\ counters_size = hw.counter_count
           /\ ~started
    /\ (RanStart /\ outcome.kind = "ok") =>
           /\ Precedes("kpc_set_config", "kpc_set_counting")
           /\ Cardinality(Positions("kpc_set_config")) = 1
           /\ \A i \in ConfiguredSlots : kpc.config[i] = EncodedEvent(measured_events[i])

\* a session that was constructed and not started, on a backend whose first
\* configuration word is still the one no session has written
C14_Witness ==
    /\ outcome = Ok("Counter")
    /\ measured_events = << instructions_retired, cycles >>
    /\ hw.config_count >= 1
    /\ kpc.config[1] = 0
    /\ ~kpc.counting

\* C14 (as stated): a session that has been constructed and not yet started
\* has queried the slot count and has written the configuration of its events
\* to the backend.
C14_ConstructionWritesConfiguration ==
    outcome = Ok("Counter") =>
        /\ "kpc_get_counter_count" \in CallsMade
        /\ "kpc_set_config" \in CallsMade
        /\ \A i \in ConfiguredSlots : kpc.config[i] = EncodedEvent(measured_events[i])

\* the last handler was a constructor
RanConstructor == outcome.op \in {"Counter", "BlockCounter"}

\* no object exists and no field of one holds anything
NoObject ==
    /\ alive \in {"none", "terminated"}
    /\ measured_events = << >>
    /\ counters_size = 0
    /\ start_counters = << >>
    /\ stop_counters = << >>
    /\ ~started

\* C15: a constructor that cannot load the backend library or resolve one of
\* its symbols ends with an error, and a constructor that ends with an error
\* leaves no object behind; a constructor that returns has a loaded library.
C15_FailedConstructionReturnsNoSession ==
    RanConstructor =>
        /\ kperf = "null" =>
               outcome.kind = "error" /\ outcome.what = "Unable to load kperf"
        /\ "dlsym" \notin CallsMade => outcome.kind = "error"
        /\ outcome.kind \in {"error", "terminate"} => NoObject /\ backendFailed
        /\ outcome.kind = "ok" =>
               /\ alive = "live"
               /\ kperf = "handle"
               /\ ~backendFailed
               /\ counters_size = hw.counter_count

\* a constructor that threw because a symbol of the library was missing
C15_Witness ==
    /\ outcome = Threw("Counter", "kperf missing symbol")
    /\ kperf = "handle"
    /\ alive = "none"
    /\ backendFailed

\* C16: a stop() whose backend read fails throws and returns no Measurement;
\* with a caller that catches the exception, the stop() of every later cycle,
\* of the same session or of one constructed afterwards, returns the
\* Measurement of its own cycle.
C16_FailedStopCorruptsNothing ==
    /\ (outcome.op = "stop" /\ backendFailed) =>
           /\ outcome.kind = "error"
           /\ measurement = NoMeasurement
    /\ (StopReturned /\ started) => measurement = CycleMeasurement

\* a cycle of a session constructed after a stop() of an earlier session had
\* thrown, with a counter that moved
C16_Witness ==
    /\ stopFailure = "earlier"
    /\ StopReturned
    /\ started
    /\ counters_size >= 1
    /\ measured_events # << >>
    /\ baseSample # endSample
    /\ measurement = CycleMeasurement

\* the number of times the last handler made a backend call
Times(call) == Cardinality(Positions(call))

\* the step is a start() that completes on a session on which a start() has
\* completed before, counting being enabled
StartsAgain ==
    /\ started
    /\ kpc.counting
    /\ kpc.thread_counting
    /\ outcome' = Ok("start")

\* C17 (as amended): every start() that completes has made the two calls that
\* enable counting, once each, also when a start() of the session has enabled
\* counting before; a BlockCounter makes them once, in its constructor, and
\* not in its destructor.
C17_EveryStartEnablesCounting ==
    /\ [](/\ outcome \in {Ok("start"), Ok("BlockCounter")} =>
                /\ Times("kpc_set_counting") = 1
                /\ Times("kpc_set_thread_counting") = 1
                /\ kpc.counting
                /\ kpc.thread_counting
          /\ outcome.op = "~BlockCounter" =>
                "kpc_set_counting" \notin CallsMade /\ "kpc_set_thread_counting" \notin CallsMade)
    /\ [][StartsAgain =>
              /\ Len(SelectSeq(calls', LAMBDA c : c = "kpc_set_counting")) = 1
              /\ Len(SelectSeq(calls', LAMBDA c : c = "kpc_set_thread_counting")) = 1]_vars

\* a start() that completed after a cycle of the same session
C17_Witness ==
    /\ outcome = Ok("start")
    /\ restarted
    /\ mapping # << >>
    /\ Times("kpc_set_counting") = 1
    /\ kpc.counting

\* C17 (as stated): a start() makes the calls that enable counting only if
\* counting is not enabled already, so that the repeated start() calls of a
\* session make them at most once.
C17_EnablesAtMostOnce ==
    [][StartsAgain =>
           /\ Len(SelectSeq(calls', LAMBDA c : c = "kpc_set_counting")) = 0
           /\ Len(SelectSeq(calls', LAMBDA c : c = "kpc_set_thread_counting")) = 0]_vars

\* the step makes the dlopen call
Opens == \E i \in 1..Len(calls') : calls'[i] = "dlopen"

\* C18: over the constructions of a process the library is opened at most
\* once: dlopen is called only while the static handle is unset and the
\* handle, once set, stays what it is; a construction that finds the library
\* loaded does not fail to load it.
C18_LibraryOpenedOnce ==
    /\ [][Opens => kperf = "unset" /\ kperf' # "unset"]_vars
    /\ [][kperf # "unset" => kperf' = kperf]_vars
    /\ []((RanConstructor /\ "dlopen" \notin CallsMade) =>
              /\ kperf = "handle"
              /\ outcome.what # "Unable to load kperf")

\* a second session constructed in the process, on the handle the first
\* construction resolved
C18_Witness ==
    /\ outcome = Ok("Counter")
    /\ kperf = "handle"
    /\ CallsMade = {"dlsym", "kpc_get_counter_count"}

\* C19: when several threads construct PerfCounter objects at the same time
\* and all their load_kperf() calls have returned, the library was opened
\* exactly once and every thread holds the same handle, which is not null.
C19_LoadIsThreadSafe ==
    (\A t \in Threads : threads[t].pc = "returned") =>
        /\ dlopens = 1
        /\ \A t \in Threads : threads[t].result = "handle"

\* the first object is between a start() that completed and its stop()
Running ==
    /\ CounterLive
    /\ started
    /\ outcome.op \in OtherOps \cup {"start"}

\* C20: while a session is running, no handler of another session alive on
\* the same thread changes the configuration words or the counting state of
\* the backend, and when the stop() of the session returns, the slots it
\* reports hold the configuration of its own events.
C20_SessionsShareNothing ==
    /\ [][(Running /\ outcome'.op \in OtherOps) => kpc' = kpc]_vars
    /\ []((StopReturned /\ started) =>
              \A i \in MappedSlots \cap ConfiguredSlots :
                  kpc.config[i] = EncodedEvent(measured_events[i]))

\* a table was written by the last handler: a pretty_print() of the caller
\* or the one of ~BlockCounter()
TableWritten == table.kind = "table" /\ measurement.kind = "measurement"

\* the mapped events in request order, as the stop() behind the table paired
\* them with their slots
MappedRequest == [i \in 1..Len(mapping) |-> mapping[i][1]]

\* no event was mapped twice
MappedOnce == \A i, j \in 1..Len(mapping) : mapping[i][1] = mapping[j][1] => i = j

\* C21: the table pretty_print() writes has the elapsed time first and then
\* one column per measured event, the columns in the order in which the
\* events were requested (no event being requested twice).
C21_ColumnsInRequestOrder ==
    (TableWritten /\ MappedOnce) =>
        /\ table.header[1] = "Elapsed [ns]"
        /\ table.columns = MappedRequest

\* the events stop() mapped
MappedEvents == {mapping[i][1] : i \in 1..Len(mapping)}

\* the text of the value of event e in the Measurement the table was written
\* from: the one stop() returned, or its average
ValueText(e) ==
    IF divisor = NoDivisor THEN to_string_integer(measurement.data[e])
                           ELSE to_string_long_double(averaged(measurement, divisor).data[e])

\* C22 (as amended): the table written for a Measurement of stop() has, in
\* its header and in its value row alike, the elapsed time and one column
\* for each distinct mapped event, and the value of a column is the value of
\* the event its header names.
C22_OneColumnPerDistinctEvent ==
    TableWritten =>
        /\ Len(table.header) = 1 + Cardinality(MappedEvents)
        /\ Len(table.row) = Len(table.header)
        /\ {table.columns[i] : i \in 1..Len(table.columns)} = MappedEvents
        /\ \A i \in 1..Len(table.columns) :
               /\ table.header[i + 1] = human_readable_name(table.columns[i])
               /\ table.row[i + 1] = ValueText(table.columns[i])

\* two events on two slots, printed in two columns with different values
C22_Witness ==
    /\ TableWritten
    /\ mapping = << << instructions_retired, 0 >>, << cycles, 1 >> >>
    /\ Len(table.row) = 3
    /\ table.row[2] # table.row[3]

\* C22 (as stated): the table has exactly 1 + (number of mapped events)
\* columns, in its header and in its value row, and each value belongs to
\* the event its header names.
C22_OneColumnPerMappedEvent ==
    TableWritten =>
        /\ Len(table.header) = 1 + Len(mapping)
        /\ Len(table.row) = 1 + Len(mapping)
        /\ \A i \in 1..Len(table.columns) :
               /\ table.header[i + 1] = human_readable_name(table.columns[i])
               /\ table.row[i + 1] = ValueText(table.columns[i])

\* the names of the supported events
CatalogNames ==
    {"Instructions", "L1 misses", "LLC misses", "Branch misses", "Cycles", "Branches",
     "L2 misses", "Reference cycles"}

\* C23: the label pretty_print() looks up for the event of a column is the
\* name of a supported event when the code is one of the enumeration and the
\* sentinel "Unimplemented" when it is not; the lookup gives a label for
\* every code.
C23_LabelLookupIsTotal ==
    table.kind = "table" =>
        /\ Len(table.header) = 1 + Len(table.columns)
        /\ \A i \in 1..Len(table.columns) :
               IF table.columns[i] \in Event
               THEN table.header[i + 1] \in CatalogNames
               ELSE table.header[i + 1] = "Unimplemented"

\* a table with a column for cycles and one for a code that is no enumerator
C23_Witness ==
    /\ table.kind = "table"
    /\ table.columns = << UnrecognizedEvent, cycles >>
    /\ table.header = << "Elapsed [ns]", "Unimplemented", "Cycles" >>

\* C24: averaged(n) and pretty_print() leave the Measurement they are called
\* on as it was, deltas and elapsed time, and an averaged(n) called again
\* with the same n returns what it returned before.
C24_SourceMeasurementUnchanged ==
    /\ [][measurement' = measurement]_vars
    /\ [][(/\ report.kind = "measurement"
           /\ outcome'.op = "averaged"
           /\ divisor' = divisor) => report' = report]_vars

\* averaged(2), pretty_print() of its result, and averaged(2) again, on a
\* Measurement with two events
C24_Witness ==
    /\ outcome.op = "averaged"
    /\ divisor = 2
    /\ Cardinality(DOMAIN measurement.data) = 2
    /\ table.kind = "table"
    /\ table = pretty_print(report, "long double", table.columns)

\* C25: no start() and no stop() changes the list of measured events or the
\* number of slots of the session, and every stop() that returns has read
\* the i-th event of that list from slot i, whatever was called before it.
C25_MappingIsFixed ==
    /\ [][outcome'.op \in {"start", "stop"} =>
              /\ measured_events' = measured_events
              /\ counters_size' = counters_size
              /\ (StopReturned /\ StopReturned') => mapping' = mapping]_vars
    /\ [](StopReturned => mapping = RequestPairs(Cardinality(MappedSlots)))

\* the second stop() of a session with two events on two slots
C25_Witness ==
    /\ StopReturned
    /\ restarted
    /\ mapping = << << instructions_retired, 0 >>, << cycles, 1 >> >>

\* C26: the Measurement of a stop() that follows a completed start() has an
\* elapsed time >= 0 and deltas >= 0, the clock never going back; where the
\* counter of a slot did not go down between the two reads, the delta is
\* the plain difference of the two values (0 when nothing was counted).
C26_DeltasNotNegative ==
    (StopReturned /\ started) =>
        /\ measurement.time_delta_ns >= 0
        /\ \A e \in DOMAIN measurement.data : measurement.data[e] >= 0
        /\ \A i \in MappedSlots :
               (FirstRequest(i) /\ endSample[i] >= baseSample[i]) =>
                   measurement.data[measured_events[i]] = endSample[i] - baseSample[i]

\* a start() and a stop() between which no counter moved, and a later
\* instant of the clock
C26_Witness ==
    /\ StopReturned
    /\ started
    /\ measured_events = << instructions_retired, cycles >>
    /\ counters_size >= 2
    /\ endSample = baseSample
    /\ endClock > baseClock
    /\ measurement.time_delta_ns > 0
    /\ \A e \in DOMAIN measurement.data : measurement.data[e] = 0

\* the slots (0-based) whose configuration word in the backend is one a
\* start() encoded: the words nobody wrote carry no mode flag
WrittenConfigSlots ==
    {i - 1 : i \in {j \in DOMAIN kpc.config : kpc.config[j] >= INTEL_CONF_CTR_USER_MODE}}

\* the slots (0-based) the last stop() read a baseline and an end value from
ReadSlots == {mapping[i][2] : i \in 1..Len(mapping)}

\* C27: every slot a completed start() wrote a configuration word for is
\* below the number of available slots and inside the configs array, and
\* every slot a stop() read is below the number of available slots and inside
\* the two arrays of counter values.
C27_SlotsWithinAvailable ==
    /\ (RanStart /\ outcome.kind = "ok") =>
           \A s \in WrittenConfigSlots :
               /\ 0 <= s
               /\ s < counters_size
               /\ s < hw.config_count
    /\ StopReturned =>
           \A s \in ReadSlots :
               /\ 0 <= s
               /\ s < counters_size
               /\ s < Len(start_counters)
               /\ s < Len(stop_counters)

\* C28: after a start() that completed, the configuration word of every
\* slot written for a requested event has the event code modulo 2^16 in its
\* low 16 bits and, above them, the user-mode flag 0x10000 and nothing else.
C28_ConfigWordEncoding ==
    (RanStart /\ outcome.kind = "ok") =>
        \A i \in ConfiguredSlots :
            /\ kpc.config[i] % 65536 = measured_events[i] % 65536
            /\ kpc.config[i] \div 65536 = 1

\* two events configured on two slots
C28_Witness ==
    /\ RanStart
    /\ outcome.kind = "ok"
    /\ measured_events = << instructions_retired, cycles >>
    /\ kpc.config = << instructions_retired + 65536, cycles + 65536 >>

\* the words configure_counters() can have assigned: those of the requested
\* events
AssignedWords == {EncodedEvent(measured_events[j]) : j \in 1..Len(measured_events)}

\* C29: after a start() that completed, every configuration word the backend
\* was handed is one configure_counters() assigned, also when the backend
\* has more configuration words than events were requested.
C29_EveryConfigWordAssigned ==
    (RanStart /\ outcome.kind = "ok") =>
        \A i \in DOMAIN kpc.config : kpc.config[i] \in AssignedWords

\* C30: when a stop() returns after a completed start(), the start() has
\* configured as many events as the stop() reports, and every slot the
\* stop() reports holds the configuration word of the event reported for it.
C30_ReportedEventsWereConfigured ==
    (StopReturned /\ started) =>
        /\ Cardinality(ConfiguredSlots) = Len(mapping)
        /\ \A i \in 1..Len(mapping) : kpc.config[i] = EncodedEvent(mapping[i][1])

\* C31 (as amended): the Measurement stop() returns has one entry for each
\* distinct event among the first min(available slots, requested events)
\* requests, and no other entry; it has min(available slots, requested
\* events) entries when none of these requests repeats an event, and fewer
\* when one does.
C31_OneEntryPerDistinctMappedEvent ==
    StopReturned =>
        /\ DOMAIN measurement.data = ReportedEvents
        /\ IF \A i \in MappedSlots : FirstRequest(i)
           THEN Cardinality(DOMAIN measurement.data) = Cardinality(MappedSlots)
           ELSE Cardinality(DOMAIN measurement.data) < Cardinality(MappedSlots)

\* cycles requested for both slots of a machine with two: one entry
C31_Witness ==
    /\ StopReturned
    /\ measured_events = << cycles, cycles, instructions_retired >>
    /\ counters_size = 2
    /\ DOMAIN measurement.data = {cycles}

\* C31 (as stated): the Measurement stop() returns has exactly
\* min(available slots, requested events) entries, one per mapped slot, also
\* when an event is requested more than once.
C31_OneEntryPerMappedSlot ==
    StopReturned =>
        Cardinality(DOMAIN measurement.data) = Min(counters_size, Len(measured_events))

\* C32: a stop() changes neither the baseline sample nor the start time nor
\* the event list of the session, and a stop() that returns after another
\* one, no start() between them, reports for the first slot the difference
\* to the sample the start() read, and the time since that start().
C32_StopKeepsBaseline ==
    /\ [][outcome'.op = "stop" =>
              /\ start_counters' = start_counters
              /\ start_time' = start_time
              /\ measured_events' = measured_events]_vars
    /\ []((StopReturned /\ started /\ restopped) =>
              /\ start_counters = baseSample
              /\ start_time = baseClock
              /\ measurement.time_delta_ns = endClock - baseClock
              /\ \A i \in MappedSlots :
                     i = 1 => measurement.data[measured_events[1]] = SlotDelta(1))

\* the second stop() after one start(), reading another sample than the
\* baseline
C32_Witness ==
    /\ StopReturned
    /\ started
    /\ restopped
    /\ counters_size >= 1
    /\ start_counters = baseSample
    /\ stop_counters # start_counters

\* C33: a start() that fails on a session whose earlier start() completed
\* leaves the baseline sample and the start time of the session as they
\* were.
C33_FailedStartKeepsBaseline ==
    [][(started /\ outcome'.op = "start" /\ outcome'.kind = "error") =>
           /\ start_counters' = start_counters
           /\ start_time' = start_time]_vars

\* C34: no two columns of a table for different supported events have the
\* same header label.
C34_LabelsAreDistinct ==
    table.kind = "table" =>
        \A i, j \in 1..Len(table.columns) :
            (/\ table.columns[i] \in Event
             /\ table.columns[j] \in Event
             /\ table.columns[i] # table.columns[j]) =>
                table.header[i + 1] # table.header[j + 1]

\* the member functions the last handler ran, as a set of positions
StepAt(name) == {i \in 1..Len(steps) : steps[i] = name}

\* C35: when a BlockCounter is destroyed and the read of its stop()
\* succeeds, the read and the report come before the teardown call, the
\* teardown call is made exactly once and is the last backend call of the
\* object; nothing is called on the object afterwards.  (When the read fails,
\* the exception leaves the destructor and the process ends there, before
\* the report and the teardown.)
C35_TeardownOnceAfterReport ==
    /\ [](outcome.op = "~BlockCounter" =>
              IF measurement = NoMeasurement
              THEN /\ outcome.kind = "terminate"
                   /\ Times("kpc_force_all_ctrs_set") = 0
                   /\ table = NoTable
              ELSE /\ Times("kpc_get_thread_counters") = 1
                   /\ Times("kpc_force_all_ctrs_set") = 1
                   /\ Precedes("kpc_get_thread_counters", "kpc_force_all_ctrs_set")
                   /\ calls[Len(calls)] = "kpc_force_all_ctrs_set"
                   /\ \A i \in StepAt("pretty_print"), j \in StepAt("~Counter") : i < j
                   /\ StepAt("pretty_print") # {}
                   /\ StepAt("~Counter") # {}
                   /\ table.kind = "table")
    /\ [][outcome.op = "~BlockCounter" => outcome'.op \in {"Counter", "BlockCounter"}]_vars

\* a BlockCounter destroyed without a failure: one read, the table, one
\* teardown call
C35_Witness ==
    /\ outcome = Ok("~BlockCounter")
    /\ table.kind = "table"
    /\ calls = << "kpc_get_thread_counters", "steady_clock::now", "kpc_force_all_ctrs_set" >>

\* a PerfCounter has been constructed: its constructor has returned
PerfConstructed == perf.alive \in {"live", "destroyed"}

\* C37: read() and configure() of a PerfCounter use no index outside the
\* arrays: every index of counters that is read is below the counter count
\* the backend reported, every index of configs that is written is below
\* the configuration count, for every pair of counts
C37_PerfCounterIndicesInRange ==
    PerfConstructed =>
        /\ \A i \in perf.indices : i < perf.CTRS_CNT
        /\ \A i \in perf.written : i < hw.config_count

\* the last handler was a constructor of PerfCounter that returned
PerfCounterBuilt == outcome = Ok("PerfCounter")

\* the last handler was a destructor of PerfCounter that returned
PerfCounterReported == outcome = Ok("~PerfCounter")

\* C36: a PerfCounter measures from its construction to its destruction: the
\* constructor configures the four counters and then reads the baseline
\* with its last backend call; the destructor reads the counters once and
\* reports, for each of the four events, (end - baseline) mod 2^64 divided
\* by the repetition count given at construction
C36_MeasuresFromConstructionToDestruction ==
    /\ PerfCounterBuilt =>
          /\ Precedes("kpc_set_config", "kpc_get_thread_counters")
          /\ Precedes("kpc_set_thread_counting", "kpc_get_thread_counters")
          /\ Times("kpc_get_thread_counters") = 1
          /\ calls[Len(calls)] = "kpc_get_thread_counters"
          /\ \A i \in 1..SnapshotSize :
                /\ i <= Len(kpc.config)
                /\ kpc.config[i] = make_config(PerfEvents[i], FALSE)
          /\ \A i \in 1..SnapshotSize :
                /\ i <= Len(perf.base)
                /\ perf.start[i] = perf.base[i]
    /\ PerfCounterReported =>
          /\ calls = << "kpc_get_thread_counters" >>
          /\ table.header = PerfHeader
          /\ \A i \in 1..SnapshotSize :
                /\ i <= Len(perf.base)
                /\ i <= Len(perf.end)
                /\ table.row[i] =
                       to_string_long_double(
                           Quotient(Delta(perf.end[i], perf.base[i]), perf.repetition_cnt))

==========================================================================
